---- MODULE Spec2Model ----
(***************************************************************************)
(* Model of the network-resources-injector admission webhook               *)
(* (pkg/webhook/webhook.go, current revision: admission/v1).               *)
(*                                                                         *)
(* Strings that the code splits, trims, escapes or matches are sequences   *)
(* of one-character strings; strings that the code only compares or        *)
(* copies (annotation keys, label keys, op names) are TLA+ strings.        *)
(***************************************************************************)
EXTENDS Integers, Sequences, FiniteSets, TLC

\* ------------------------------------------------------------------------
\* Bounds of the model
\* ------------------------------------------------------------------------

\* largest number of elements in a generated network selection list
MaxSelections == 2

\* largest number of containers in a generated pod
MaxContainers == 2

\* largest number of definitions missing from the informer index at a time
MaxUnsynced == 1

\* ------------------------------------------------------------------------
\* Generic helpers
\* ------------------------------------------------------------------------

EmptyMap == << >>

Range(s) == {s[i] : i \in DOMAIN s}

\* Go map write m[k] = v
MapPut(m, k, v) == [x \in (DOMAIN m) \cup {k} |-> IF x = k THEN v ELSE m[x]]

\* ------------------------------------------------------------------------
\* strings package (Split on a one-character separator, TrimSpace,
\* Replace of a one-character pattern, Join)
\* ------------------------------------------------------------------------

RECURSIVE SplitAcc(_, _, _)
SplitAcc(s, sep, cur) ==
    IF s = << >> THEN << cur >>
    ELSE IF Head(s) = sep THEN << cur >> \o SplitAcc(Tail(s), sep, << >>)
    ELSE SplitAcc(Tail(s), sep, Append(cur, Head(s)))

\* strings.Split(s, sep): always at least one unit
Split(s, sep) == SplitAcc(s, sep, << >>)

RECURSIVE TrimLeft(_)
TrimLeft(s) == IF s # << >> /\ Head(s) = " " THEN TrimLeft(Tail(s)) ELSE s

RECURSIVE TrimRight(_)
TrimRight(s) ==
    IF s # << >> /\ s[Len(s)] = " " THEN TrimRight(SubSeq(s, 1, Len(s) - 1)) ELSE s

\* strings.TrimSpace
TrimSpace(s) == TrimRight(TrimLeft(s))

RECURSIVE ReplaceAll(_, _, _)
\* strings.Replace(s, old, new, -1) for a one-character old
ReplaceAll(s, old, new) ==
    IF s = << >> THEN << >>
    ELSE (IF Head(s) = old THEN new ELSE << Head(s) >>) \o ReplaceAll(Tail(s), old, new)

RECURSIVE Join(_, _)
Join(units, sep) ==
    IF units = << >> THEN << >>
    ELSE IF Len(units) = 1 THEN units[1]
    ELSE units[1] \o sep \o Join(Tail(units), sep)

\* ------------------------------------------------------------------------
\* String constants of the program and of the example deployment
\* ------------------------------------------------------------------------

networksAnnotationKey == "k8s.v1.cni.cncf.io/networks"

nodeSelectorKey == "k8s.v1.cni.cncf.io/nodeSelector"

defaultNetworkAnnotationKey == "v1.multus-cni.io/default-network"

\* default value of the network-resource-name-keys flag
ResourceNameKey == "k8s.v1.cni.cncf.io/resourceName"

\* a second resource-name key, configured with the network-resource-name-keys
\* flag
AltResourceNameKey == "example.com/resourceName"

\* an annotation key that is not configured as a resource-name key
UnlistedResourceNameKey == "example.org/resourceName"

\* types.EnvNameContainerName
EnvNameContainerName == "CONTAINER_NAME"

AnnotationsPathStr == "/metadata/annotations"

\* "example.com/foo"
ResFoo == <<"e","x","a","m","p","l","e",".","c","o","m","/","f","o","o">>

\* "v~1/bar": a resource name holding both characters that a JSON pointer escapes
ResBar == <<"v","~","1","/","b","a","r">>

\* "hugepages-"
HugepagePrefix == <<"h","u","g","e","p","a","g","e","s","-">>

\* "hugepages-1Gi"
Huge1Gi == HugepagePrefix \o <<"1","G","i">>

\* "hugepages-2Mi"
Huge2Mi == HugepagePrefix \o <<"2","M","i">>

\* "hugepages_"
HugepageFilePrefix == <<"h","u","g","e","p","a","g","e","s","_">>

StrRequestInfix == <<"_","r","e","q","u","e","s","t","_">>

StrLimitInfix == <<"_","l","i","m","i","t","_">>

StrRequestsDot == <<"r","e","q","u","e","s","t","s",".">>

StrLimitsDot == <<"l","i","m","i","t","s",".">>

NsDefault == <<"d","e","f","a","u","l","t">>

NsOther == <<"n","s","1">>
NsKubeSystem == <<"k","u","b","e","-","s","y","s","t","e","m">>

Net1 == <<"n","1">>

Net2 == <<"n","2">>

Net3 == <<"n","3">>
Net4 == <<"n","4">>
Net5 == <<"n","5">>

\* order in which the model walks a Go map keyed by resource names
ResourceOrder == << ResFoo, ResBar, Huge1Gi, Huge2Mi >>

\* ------------------------------------------------------------------------
\* Network selection parsing
\* ------------------------------------------------------------------------

LowerAlnum ==
    {"a","b","c","d","e","f","g","h","i","j","k","l","m","n","o","p","q","r",
     "s","t","u","v","w","x","y","z","0","1","2","3","4","5","6","7","8","9"}

\* validNameRegex.MatchString: ^[a-z0-9]([-a-z0-9]*[a-z0-9])?$
validNameRegex(unit) ==
    /\ unit # << >>
    /\ unit[1] \in LowerAlnum
    /\ unit[Len(unit)] \in LowerAlnum
    /\ \A i \in DOMAIN unit : unit[i] \in LowerAlnum \cup {"-"}

NoElement == [Namespace |-> << >>, Name |-> << >>, InterfaceRequest |-> << >>]

\* a faulty parse: the units after the second are dropped instead of
\* being an error
parsePodNetworkSelectionElementLenient(selection, defaultNamespace) ==
    LET units == Split(selection, "/")
        namespace == IF Len(units) = 1 THEN defaultNamespace ELSE units[1]
        fullName == IF Len(units) = 1 THEN units[1] ELSE units[2]
        parts == Split(fullName, "@")
        name == parts[1]
        netInterface == IF Len(parts) >= 2 THEN parts[2] ELSE << >>
    IN  IF \E unit \in {namespace, name, netInterface} :
               ~validNameRegex(unit) /\ Len(unit) > 0
        THEN [err |-> TRUE, elem |-> NoElement,
              msg |-> <<"at least one of the network selection units is invalid">>]
        ELSE [err |-> FALSE, msg |-> << >>,
              elem |-> [Namespace |-> namespace, Name |-> name,
                        InterfaceRequest |-> netInterface]]

parsePodNetworkSelectionElement(selection, defaultNamespace) ==
    LET units == Split(selection, "/")
        namespace == IF Len(units) = 1 THEN defaultNamespace ELSE units[1]
        fullName == IF Len(units) = 1 THEN units[1] ELSE units[2]
        parts == Split(fullName, "@")
        name == parts[1]
        netInterface == IF Len(parts) = 2 THEN parts[2] ELSE << >>
    IN  IF Len(units) > 2
        THEN [err |-> TRUE, elem |-> NoElement,
              msg |-> <<"invalid network selection element - more than one '/' rune">>]
        ELSE IF Len(parts) > 2
        THEN [err |-> TRUE, elem |-> NoElement,
              msg |-> <<"invalid network selection element - more than one '@' rune">>]
        ELSE IF \E unit \in {namespace, name, netInterface} :
                    ~validNameRegex(unit) /\ Len(unit) > 0
        THEN [err |-> TRUE, elem |-> NoElement,
              msg |-> <<"at least one of the network selection units is invalid">>]
        ELSE [err |-> FALSE, msg |-> << >>,
              elem |-> [Namespace |-> namespace, Name |-> name,
                        InterfaceRequest |-> netInterface]]

\* stands for the JSON text [{"name":"n2","namespace":"default"},{"name":"n1"}]
JsonSelections == <<"[","{","n","2","@","d","}",",","{","n","1","}","]">>

\* stands for the JSON text [{"name":"N2","namespace":"default"}]
JsonUpperCase == <<"[","{","N","2","@","d","}","]">>

JsonTexts == {JsonSelections, JsonUpperCase}

\* json.Unmarshal of the annotation into []*NetworkSelectionElement: the
\* annotation values of the model are not JSON texts, except JsonTexts
jsonUnmarshalSelections(podNetworks) ==
    IF podNetworks = JsonSelections
    THEN [err |-> FALSE,
          elems |-> << [Namespace |-> NsDefault, Name |-> Net2, InterfaceRequest |-> << >>],
                       [Namespace |-> << >>, Name |-> Net1, InterfaceRequest |-> << >>] >>]
    ELSE IF podNetworks = JsonUpperCase
    THEN [err |-> FALSE,
          elems |-> << [Namespace |-> NsDefault, Name |-> <<"N","2">>,
                        InterfaceRequest |-> << >>] >>]
    ELSE [err |-> TRUE, elems |-> << >>]

RECURSIVE parseCommaSeparated(_, _)
\* the loop over strings.Split(podNetworks, ","): stops at the first error
parseCommaSeparated(selections, defaultNamespace) ==
    IF selections = << >> THEN [err |-> FALSE, msg |-> << >>, elems |-> << >>]
    ELSE LET first == parsePodNetworkSelectionElement(TrimSpace(Head(selections)),
                                                      defaultNamespace)
             rest == parseCommaSeparated(Tail(selections), defaultNamespace)
         IN  IF first.err
             THEN [err |-> TRUE, elems |-> << >>,
                   msg |-> <<"error parsing network selection element">> \o first.msg]
             ELSE IF rest.err THEN rest
             ELSE [err |-> FALSE, msg |-> << >>, elems |-> << first.elem >> \o rest.elems]

parsePodNetworkSelections(podNetworks, defaultNamespace) ==
    IF Len(podNetworks) = 0
    THEN [err |-> TRUE, elems |-> << >>,
          msg |-> <<"empty string passed as network selection elements list">>]
    ELSE LET js == jsonUnmarshalSelections(podNetworks)
             parsed == IF ~js.err
                       THEN [err |-> FALSE, msg |-> << >>, elems |-> js.elems]
                       ELSE parseCommaSeparated(Split(podNetworks, ","), defaultNamespace)
         IN  IF parsed.err THEN parsed
             ELSE IF defaultNamespace = << >>
                     /\ \E i \in DOMAIN parsed.elems : parsed.elems[i].Namespace = << >>
             THEN [err |-> FALSE, msg |-> << >>, elems |-> << >>]
             ELSE [err |-> FALSE, msg |-> << >>,
                   elems |-> [i \in DOMAIN parsed.elems |->
                                IF parsed.elems[i].Namespace = << >>
                                THEN [parsed.elems[i] EXCEPT !.Namespace = defaultNamespace]
                                ELSE parsed.elems[i]]]

\* ------------------------------------------------------------------------
\* Network attachment definitions of the cluster
\* ------------------------------------------------------------------------

NadNames == {Net1, Net2, Net3}

\* "master=eno3"
SelectorEno3 == <<"m","a","s","t","e","r","=","e","n","o","3">>

\* " master = eno4 "
SelectorEno4 == <<" ","m","a","s","t","e","r"," ","="," ","e","n","o","4"," ">>

\* the definitions of namespace "ns1": they exist, and are held by the
\* informer index, throughout
OtherNadNames == {Net4, Net5}

\* "a=b=c"
SelectorTwoLabels == <<"a","=","b","=","c">>

\* " gpu "
SelectorGpu == <<" ","g","p","u"," ">>

\* annotations of the attachment definitions that can exist in namespace
\* "default": n1 names a resource under each of the two configured
\* resource-name keys, n2 names a resource under the first of them, another
\* under a key that is not configured, and a node selector, n3 names a node
\* selector only; and of those of namespace "ns1": n4 names a resource and
\* a node selector with two "=", n5 a node selector without "="
NadAnnotations(name) ==
    IF name = Net4
    THEN [k \in {ResourceNameKey, nodeSelectorKey} |->
            IF k = ResourceNameKey THEN ResFoo ELSE SelectorTwoLabels]
    ELSE IF name = Net5
    THEN [k \in {nodeSelectorKey} |-> SelectorGpu]
    ELSE IF name = Net1
    THEN [k \in {ResourceNameKey, AltResourceNameKey} |->
            IF k = ResourceNameKey THEN ResFoo ELSE ResBar]
    ELSE IF name = Net2
    THEN [k \in {ResourceNameKey, UnlistedResourceNameKey, nodeSelectorKey} |->
            IF k = ResourceNameKey THEN ResBar
            ELSE IF k = UnlistedResourceNameKey THEN ResFoo
            ELSE SelectorEno3]
    ELSE [k \in {nodeSelectorKey} |-> SelectorEno4]

NoAnnotations == [found |-> FALSE, annotations |-> EmptyMap]

\* the definition namespace/name is among those held: names of namespace
\* "default", or a definition of namespace "ns1"
Held(names, namespace, name) ==
    \/ namespace = NsDefault /\ name \in names
    \/ namespace = NsOther /\ name \in OtherNadNames

\* nadCache.Get: the annotations held by the informer index, or nil
nadCacheGet(cache, namespace, name) ==
    IF Held(cache, namespace, name)
    THEN [found |-> TRUE, annotations |-> NadAnnotations(name)]
    ELSE NoAnnotations

\* a faulty read: the error of the API server is dropped and a definition
\* without annotations is returned
getNetworkAttachmentDefinitionErrorDropped(cluster, namespace, name) ==
    IF Held(cluster, namespace, name)
    THEN [found |-> TRUE, annotations |-> NadAnnotations(name)]
    ELSE [found |-> TRUE, annotations |-> EmptyMap]

\* getNetworkAttachmentDefinition: one direct read from the API server
getNetworkAttachmentDefinition(cluster, namespace, name) ==
    IF Held(cluster, namespace, name)
    THEN [found |-> TRUE, annotations |-> NadAnnotations(name)]
    ELSE NoAnnotations

RECURSIVE countResourceNames(_, _, _)
\* the loop over controlSwitches.GetResourceNameKeys(): reqs[resourceName]++
countResourceNames(keys, annotationsMap, reqs) ==
    IF keys = << >> THEN reqs
    ELSE LET k == Head(keys)
             next == IF k \in DOMAIN annotationsMap
                     THEN LET r == annotationsMap[k]
                          IN  MapPut(reqs, r, (IF r \in DOMAIN reqs THEN reqs[r] ELSE 0) + 1)
                     ELSE reqs
         IN  countResourceNames(Tail(keys), annotationsMap, next)

\* a faulty split: of a node selector with more than one "=" the first two
\* pieces are taken
parseNodeSelectorFirstLabel(annotationsMap, nsMap) ==
    IF nodeSelectorKey \notin DOMAIN annotationsMap
    THEN [err |-> FALSE, nsMap |-> nsMap]
    ELSE LET ns == annotationsMap[nodeSelectorKey]
             nsNameValue == Split(ns, "=")
         IN  IF Len(nsNameValue) >= 2
             THEN [err |-> FALSE,
                   nsMap |-> MapPut(nsMap, TrimSpace(nsNameValue[1]), TrimSpace(nsNameValue[2]))]
             ELSE [err |-> FALSE, nsMap |-> MapPut(nsMap, TrimSpace(ns), << >>)]

\* the node selector part of parseNetworkAttachDefinition
parseNodeSelector(annotationsMap, nsMap) ==
    IF nodeSelectorKey \notin DOMAIN annotationsMap
    THEN [err |-> FALSE, nsMap |-> nsMap]
    ELSE LET ns == annotationsMap[nodeSelectorKey]
             nsNameValue == Split(ns, "=")
         IN  IF Len(nsNameValue) > 2
             THEN [err |-> TRUE, nsMap |-> nsMap]
             ELSE IF Len(nsNameValue) = 2
             THEN [err |-> FALSE,
                   nsMap |-> MapPut(nsMap, TrimSpace(nsNameValue[1]), TrimSpace(nsNameValue[2]))]
             ELSE [err |-> FALSE, nsMap |-> MapPut(nsMap, TrimSpace(ns), << >>)]

\* result: the two maps, the error (if any) and how the definition was read
\* a faulty lookup: a definition found nowhere is taken as one without
\* annotations, and the walk goes on
parseNetworkAttachDefinitionMissIgnored(net, reqs, nsMap, cache, cluster, keys) ==
    LET hit == nadCacheGet(cache, net.Namespace, net.Name)
        read == getNetworkAttachmentDefinition(cluster, net.Namespace, net.Name)
        via == IF hit.found THEN "cache" ELSE IF read.found THEN "api" ELSE "failed"
        annotationsMap == IF hit.found THEN hit.annotations ELSE read.annotations
        sel == parseNodeSelector(annotationsMap, nsMap)
    IN  IF sel.err
        THEN [err |-> TRUE, reqs |-> countResourceNames(keys, annotationsMap, reqs),
              nsMap |-> nsMap, via |-> via,
              msg |-> <<"node selector in net-attach-def has more than one label">>]
        ELSE [err |-> FALSE, reqs |-> countResourceNames(keys, annotationsMap, reqs),
              nsMap |-> sel.nsMap, via |-> via, msg |-> << >>]

parseNetworkAttachDefinition(net, reqs, nsMap, cache, cluster, keys) ==
    LET hit == nadCacheGet(cache, net.Namespace, net.Name)
        read == getNetworkAttachmentDefinition(cluster, net.Namespace, net.Name)
        via == IF hit.found THEN "cache" ELSE IF read.found THEN "api" ELSE "failed"
        annotationsMap == IF hit.found THEN hit.annotations ELSE read.annotations
        sel == parseNodeSelector(annotationsMap, nsMap)
    IN  IF ~hit.found /\ ~read.found
        THEN [err |-> TRUE, reqs |-> reqs, nsMap |-> nsMap, via |-> via,
              msg |-> <<"could not find network attachment definition",
                        "could not get Network Attachment Definition">>]
        ELSE IF sel.err
        THEN [err |-> TRUE, reqs |-> countResourceNames(keys, annotationsMap, reqs),
              nsMap |-> nsMap, via |-> via,
              msg |-> <<"node selector in net-attach-def has more than one label">>]
        ELSE [err |-> FALSE, reqs |-> countResourceNames(keys, annotationsMap, reqs),
              nsMap |-> sel.nsMap, via |-> via, msg |-> << >>]

RECURSIVE resolveSelections(_, _, _, _, _, _, _)
\* the loops of MutateHandler over the parsed selections: each selection is
\* resolved in order and the first error ends the walk
resolveSelections(nets, reqs, nsMap, lookups, cache, cluster, keys) ==
    IF nets = << >>
    THEN [err |-> FALSE, msg |-> << >>, reqs |-> reqs, nsMap |-> nsMap, lookups |-> lookups]
    ELSE LET r == parseNetworkAttachDefinition(Head(nets), reqs, nsMap, cache, cluster, keys)
             seen == Append(lookups, [Namespace |-> Head(nets).Namespace,
                                      Name |-> Head(nets).Name, via |-> r.via])
         IN  IF r.err
             THEN [err |-> TRUE, msg |-> r.msg, reqs |-> r.reqs, nsMap |-> r.nsMap,
                   lookups |-> seen]
             ELSE resolveSelections(Tail(nets), r.reqs, r.nsMap, seen, cache, cluster, keys)

\* ------------------------------------------------------------------------
\* JSON patch operations
\*
\* An operation is [op, path, key, value]: path is the sequence of the fixed
\* reference tokens, key the escaped last token when it is built from data
\* (<< >> otherwise).  Values carry a tag t and fields named after the Go
\* type they stand for.
\* ------------------------------------------------------------------------

DecimalDigits == <<"0","1","2","3","4","5","6","7","8","9">>

\* strconv.Itoa / fmt.Sprintf("%d") of a container index
Itoa(i) == DecimalDigits[i + 1]

\* a faulty escaping: "/" is escaped before "~", so the "~" of each "~1" is
\* escaped again
toSafeJsonPatchKeySlashFirst(in) ==
    ReplaceAll(ReplaceAll(in, "/", <<"~","1">>), "~", <<"~","0">>)

toSafeJsonPatchKey(in) == ReplaceAll(ReplaceAll(in, "~", <<"~","0">>), "/", <<"~","1">>)

AddOp(path, key, value) == [op |-> "add", path |-> path, key |-> key, value |-> value]

\* resource.NewQuantity(number, resource.DecimalSI)
Quantity(number) == [t |-> "Quantity", number |-> number, format |-> "DecimalSI"]

\* the keys of a resource map in the order the model walks it
RECURSIVE OrderedKeys(_, _)
OrderedKeys(order, keys) ==
    IF order = << >> THEN << >>
    ELSE (IF Head(order) \in keys THEN << Head(order) >> ELSE << >>)
         \o OrderedKeys(Tail(order), keys)

Reverse(s) == [i \in DOMAIN s |-> s[Len(s) + 1 - i]]

\* Go leaves the iteration order of a map open: the model walks resource maps
\* in ResourceOrder or in its reverse
MapOrder(keys, reversed) ==
    IF reversed THEN Reverse(OrderedKeys(ResourceOrder, keys))
    ELSE OrderedKeys(ResourceOrder, keys)

patchEmptyResources(patch, containerIndex, key) ==
    Append(patch, AddOp(<<"spec", "containers", Itoa(containerIndex), "resources", key>>,
                        << >>, [t |-> "ResourceList"]))

appendResource(patch, resourceName, reqQuantity, limitQuantity) ==
    patch \o
    << AddOp(<<"spec", "containers", "0", "resources", "requests">>,
             toSafeJsonPatchKey(resourceName), reqQuantity),
       AddOp(<<"spec", "containers", "0", "resources", "limits">>,
             toSafeJsonPatchKey(resourceName), limitQuantity) >>

RECURSIVE appendResources(_, _, _, _)
\* the closing loop of createResourcePatch and updateResourcePatch; existing
\* holds the quantities that updateResourcePatch adds to (none in
\* createResourcePatch)
appendResources(patch, names, resourceRequests, existing) ==
    IF names = << >> THEN patch
    ELSE LET r == Head(names)
             n == resourceRequests[r]
             reqQuantity == IF r \in DOMAIN existing.Requests
                            THEN Quantity(n + existing.Requests[r]) ELSE Quantity(n)
             limitQuantity == IF r \in DOMAIN existing.Limits
                              THEN Quantity(n + existing.Limits[r]) ELSE Quantity(n)
         IN  appendResources(appendResource(patch, r, reqQuantity, limitQuantity),
                             Tail(names), resourceRequests, existing)

NothingExisting == [Requests |-> EmptyMap, Limits |-> EmptyMap]

\* a faulty filter: only the first container is searched
remainingResourcesFirstContainer(Containers, resourceRequests) ==
    {r \in DOMAIN resourceRequests :
        /\ r \notin DOMAIN Containers[1].Limits
        /\ r \notin DOMAIN Containers[1].Requests}

\* the resource names createResourcePatch leaves in resourceRequests
remainingResources(Containers, resourceRequests) ==
    {r \in DOMAIN resourceRequests :
        \A i \in DOMAIN Containers :
            /\ r \notin DOMAIN Containers[i].Limits
            /\ r \notin DOMAIN Containers[i].Requests}

\* both resource patch functions index Containers[0]: callers pass a pod
\* with at least one container
createResourcePatch(patch, Containers, resourceRequests, reversed) ==
    LET p1 == IF Containers[1].Requests = EmptyMap
              THEN patchEmptyResources(patch, 0, "requests") ELSE patch
        p2 == IF Containers[1].Limits = EmptyMap
              THEN patchEmptyResources(p1, 0, "limits") ELSE p1
    IN  appendResources(p2, MapOrder(remainingResources(Containers, resourceRequests), reversed),
                        resourceRequests, NothingExisting)

\* a faulty update: the existing quantities of the first container are not
\* added
updateResourcePatchOverwriting(patch, Containers, resourceRequests, reversed) ==
    LET p1 == IF Containers[1].Requests = EmptyMap
              THEN patchEmptyResources(patch, 0, "requests") ELSE patch
        p2 == IF Containers[1].Limits = EmptyMap
              THEN patchEmptyResources(p1, 0, "limits") ELSE p1
    IN  appendResources(p2, MapOrder(DOMAIN resourceRequests, reversed), resourceRequests,
                        NothingExisting)

updateResourcePatch(patch, Containers, resourceRequests, reversed) ==
    LET p1 == IF Containers[1].Requests = EmptyMap
              THEN patchEmptyResources(patch, 0, "requests") ELSE patch
        p2 == IF Containers[1].Limits = EmptyMap
              THEN patchEmptyResources(p1, 0, "limits") ELSE p1
    IN  appendResources(p2, MapOrder(DOMAIN resourceRequests, reversed), resourceRequests,
                        [Requests |-> Containers[1].Requests, Limits |-> Containers[1].Limits])

\* ------------------------------------------------------------------------
\* Hugepages, CONTAINER_NAME, Downward API volume
\* ------------------------------------------------------------------------

\* HugepageRegex.FindStringSubmatch: ^hugepages-(.+)$
HugepageMatches(resourceName) ==
    /\ Len(resourceName) > Len(HugepagePrefix)
    /\ SubSeq(resourceName, 1, Len(HugepagePrefix)) = HugepagePrefix

\* matches[1]
HugepageSize(resourceName) ==
    SubSeq(resourceName, Len(HugepagePrefix) + 1, Len(resourceName))

\* a faulty path: the letter i is removed from the whole file name
hugepageResourceStripped(resourceName, containerName, prefix, infix) ==
    [ResourceName |-> prefix \o resourceName,
     ContainerName |-> containerName,
     Path |-> ReplaceAll(HugepageFilePrefix \o HugepageSize(resourceName)
                         \o infix \o containerName, "i", << >>)]

\* the hugepageResourceData of one matching entry; infix and prefix tell
\* requests from limits
hugepageResource(resourceName, containerName, prefix, infix) ==
    [ResourceName |-> prefix \o resourceName,
     ContainerName |-> containerName,
     Path |-> HugepageFilePrefix \o ReplaceAll(HugepageSize(resourceName), "i", << >>)
              \o infix \o containerName]

RECURSIVE hugepageEntries(_, _, _, _, _)
\* one walk over container.Resources.Requests or container.Resources.Limits
hugepageEntries(names, resources, containerName, prefix, infix) ==
    IF names = << >> THEN << >>
    ELSE (IF HugepageMatches(Head(names)) /\ resources[Head(names)] # 0
          THEN << hugepageResource(Head(names), containerName, prefix, infix) >>
          ELSE << >>)
         \o hugepageEntries(Tail(names), resources, containerName, prefix, infix)

addEnvVar(patch, containerIndex, firstElement, envName, envVal) ==
    IF firstElement
    THEN Append(patch, AddOp(<<"spec", "containers", Itoa(containerIndex), "env">>, << >>,
                             [t |-> "EnvVarList", envName |-> envName, envValue |-> envVal]))
    ELSE Append(patch, AddOp(<<"spec", "containers", Itoa(containerIndex), "env", "-">>, << >>,
                             [t |-> "EnvVar", envName |-> envName, envValue |-> envVal]))

createEnvPatch(patch, container, containerIndex, envName, envVal) ==
    LET found == \E i \in DOMAIN container.Env : container.Env[i].Name = envName
        firstElement == Len(container.Env) = 0
    IN  IF ~found THEN addEnvVar(patch, containerIndex, firstElement, envName, envVal)
        ELSE patch

RECURSIVE processHugepagesFrom(_, _, _, _, _)
\* the loop of processHugepagesForDownwardAPI from container number index on
processHugepagesFrom(index, patch, list, containers, reversed) ==
    IF index > Len(containers) THEN [patch |-> patch, list |-> list]
    ELSE LET container == containers[index]
             fromRequests == hugepageEntries(MapOrder(DOMAIN container.Requests, reversed),
                                             container.Requests, container.Name,
                                             StrRequestsDot, StrRequestInfix)
             fromLimits == hugepageEntries(MapOrder(DOMAIN container.Limits, reversed),
                                           container.Limits, container.Name,
                                           StrLimitsDot, StrLimitInfix)
             found == fromRequests \o fromLimits # << >>
             next == IF found
                     THEN createEnvPatch(patch, container, index - 1,
                                         EnvNameContainerName, container.Name)
                     ELSE patch
         IN  processHugepagesFrom(index + 1, next, list \o fromRequests \o fromLimits,
                                  containers, reversed)

processHugepagesForDownwardAPI(patch, containers, reversed) ==
    processHugepagesFrom(1, patch, << >>, containers, reversed)

\* types.LabelsPath
LabelsPath == <<"l","a","b","e","l","s">>

\* types.AnnotationsPath
AnnotationsPath == <<"a","n","n","o","t","a","t","i","o","n","s">>

\* types.DownwardAPIMountPath
DownwardAPIMountPath == "/etc/podnetinfo"

FieldRefFile(path, fieldPath) ==
    [Path |-> path, FieldPath |-> fieldPath, Resource |-> << >>, ContainerName |-> << >>,
     Divisor |-> ""]

ResourceFieldRefFile(hugepageResource_) ==
    [Path |-> hugepageResource_.Path, FieldPath |-> "",
     Resource |-> hugepageResource_.ResourceName,
     ContainerName |-> hugepageResource_.ContainerName, Divisor |-> "1Mi"]

\* a faulty volume patch: the volume is appended without a look at the
\* volumes the pod has
addVolDownwardAPINoArray(patch, hugepageResourceList, pod) ==
    LET dAPILabels == IF pod.Labels # EmptyMap
                      THEN << FieldRefFile(LabelsPath, "metadata.labels") >> ELSE << >>
        dAPIAnnotations == IF pod.Annotations # EmptyMap
                           THEN << FieldRefFile(AnnotationsPath, "metadata.annotations") >>
                           ELSE << >>
        dAPIHugepages == [i \in DOMAIN hugepageResourceList |->
                            ResourceFieldRefFile(hugepageResourceList[i])]
    IN  Append(patch, AddOp(<<"spec", "volumes", "-">>, << >>,
                            [t |-> "Volume", volumeName |-> "podnetinfo",
                             items |-> dAPILabels \o dAPIAnnotations \o dAPIHugepages]))

\* a faulty volume patch: a pod that has a volume already is taken to have
\* the podnetinfo volume and gets none
addVolDownwardAPIOnce(patch, hugepageResourceList, pod) ==
    IF pod.Volumes # 0 THEN patch
    ELSE Append(Append(patch, AddOp(<<"spec", "volumes">>, << >>, [t |-> "VolumeList"])),
                AddOp(<<"spec", "volumes", "-">>, << >>,
                      [t |-> "Volume", volumeName |-> "podnetinfo",
                       items |-> (IF pod.Labels # EmptyMap
                                  THEN << FieldRefFile(LabelsPath, "metadata.labels") >>
                                  ELSE << >>)
                                 \o (IF pod.Annotations # EmptyMap
                                     THEN << FieldRefFile(AnnotationsPath,
                                                          "metadata.annotations") >>
                                     ELSE << >>)
                                 \o [i \in DOMAIN hugepageResourceList |->
                                        ResourceFieldRefFile(hugepageResourceList[i])]]))

addVolDownwardAPI(patch, hugepageResourceList, pod) ==
    LET p1 == IF pod.Volumes = 0
              THEN Append(patch, AddOp(<<"spec", "volumes">>, << >>, [t |-> "VolumeList"]))
              ELSE patch
        dAPILabels == IF pod.Labels # EmptyMap
                      THEN << FieldRefFile(LabelsPath, "metadata.labels") >> ELSE << >>
        dAPIAnnotations == IF pod.Annotations # EmptyMap
                           THEN << FieldRefFile(AnnotationsPath, "metadata.annotations") >>
                           ELSE << >>
        dAPIHugepages == [i \in DOMAIN hugepageResourceList |->
                            ResourceFieldRefFile(hugepageResourceList[i])]
    IN  Append(p1, AddOp(<<"spec", "volumes", "-">>, << >>,
                         [t |-> "Volume", volumeName |-> "podnetinfo",
                          items |-> dAPILabels \o dAPIAnnotations \o dAPIHugepages]))

RECURSIVE addVolumeMountFrom(_, _, _)
addVolumeMountFrom(index, patch, containers) ==
    IF index > Len(containers) THEN patch
    ELSE LET p1 == IF containers[index].VolumeMounts = 0
                   THEN Append(patch, AddOp(<<"spec", "containers", Itoa(index - 1),
                                              "volumeMounts">>, << >>,
                                            [t |-> "VolumeMountList"]))
                   ELSE patch
             p2 == Append(p1, AddOp(<<"spec", "containers", Itoa(index - 1),
                                      "volumeMounts", "-">>, << >>,
                                    [t |-> "VolumeMount", mountName |-> "podnetinfo",
                                     ReadOnly |-> TRUE, MountPath |-> DownwardAPIMountPath]))
         IN  addVolumeMountFrom(index + 1, p2, containers)

\* a faulty walk: the volume is mounted on the first container only
addVolumeMountFirstOnly(patch, containers) ==
    addVolumeMountFrom(1, patch, SubSeq(containers, 1, 1))

addVolumeMount(patch, containers) == addVolumeMountFrom(1, patch, containers)

createVolPatch(patch, hugepageResourceList, pod) ==
    addVolDownwardAPI(addVolumeMount(patch, pod.Containers), hugepageResourceList, pod)

\* ------------------------------------------------------------------------
\* User-defined annotations and node selector
\* ------------------------------------------------------------------------

RECURSIVE mergeUserDefined(_, _)
\* the first loop of appendAddAnnotPatch: a key keeps the value of the first
\* fragment that holds it
mergeUserDefined(userDefinedPatch, annotations) ==
    IF userDefinedPatch = << >> THEN annotations
    ELSE LET p == Head(userDefinedPatch)
             next == IF p.path = AnnotationsPathStr /\ p.op = "add"
                     THEN [k \in (DOMAIN annotations) \cup (DOMAIN p.value) |->
                             IF k \in DOMAIN annotations THEN annotations[k] ELSE p.value[k]]
                     ELSE annotations
         IN  mergeUserDefined(Tail(userDefinedPatch), next)

\* a faulty merge: the annotations of the pod are not filled in
appendAddAnnotPatchFragmentsOnly(patch, pod, userDefinedPatch) ==
    LET annotations == mergeUserDefined(userDefinedPatch, EmptyMap)
    IN  IF annotations # EmptyMap
        THEN Append(patch, AddOp(<<"metadata", "annotations">>, << >>,
                                 [t |-> "Annotations", annotations |-> annotations]))
        ELSE patch

appendAddAnnotPatch(patch, pod, userDefinedPatch) ==
    LET annotations == mergeUserDefined(userDefinedPatch, EmptyMap)
        filled == [k \in (DOMAIN annotations) \cup (DOMAIN pod.Annotations) |->
                     IF k \in DOMAIN annotations THEN annotations[k] ELSE pod.Annotations[k]]
    IN  IF annotations # EmptyMap
        THEN Append(patch, AddOp(<<"metadata", "annotations">>, << >>,
                                 [t |-> "Annotations", annotations |-> filled]))
        ELSE patch

appendUserDefinedPatch(patch, pod, userDefinedPatch) ==
    appendAddAnnotPatch(patch, pod, userDefinedPatch)

\* a faulty merge: on a collision the pod's value is kept
createNodeSelectorPatchExistingWins(patch, existing, desired) ==
    LET targetMap == [k \in (DOMAIN existing) \cup (DOMAIN desired) |->
                        IF k \in DOMAIN existing THEN existing[k] ELSE desired[k]]
    IN  IF targetMap = EmptyMap THEN patch
        ELSE Append(patch, AddOp(<<"spec", "nodeSelector">>, << >>,
                                 [t |-> "NodeSelector", selector |-> targetMap]))

createNodeSelectorPatch(patch, existing, desired) ==
    LET targetMap == [k \in (DOMAIN existing) \cup (DOMAIN desired) |->
                        IF k \in DOMAIN desired THEN desired[k] ELSE existing[k]]
    IN  IF targetMap = EmptyMap THEN patch
        ELSE Append(patch, AddOp(<<"spec", "nodeSelector">>, << >>,
                                 [t |-> "NodeSelector", selector |-> targetMap]))

\* a faulty search: a key that no fragment holds is reported as found
findInUserDefinedAlwaysFound(userDefinedPatch, annotationKey) ==
    LET holders == {i \in DOMAIN userDefinedPatch :
                       /\ userDefinedPatch[i].op = "add"
                       /\ userDefinedPatch[i].path = AnnotationsPathStr
                       /\ annotationKey \in DOMAIN userDefinedPatch[i].value}
    IN  IF holders = {} THEN [nets |-> << >>, exists |-> TRUE]
        ELSE [nets |-> userDefinedPatch[CHOOSE i \in holders :
                                           \A j \in holders : i <= j].value[annotationKey],
              exists |-> TRUE]

RECURSIVE findInUserDefined(_, _)
\* the loop of getNetworkSelections over the user-defined fragments
findInUserDefined(userDefinedPatch, annotationKey) ==
    IF userDefinedPatch = << >> THEN [nets |-> << >>, exists |-> FALSE]
    ELSE LET p == Head(userDefinedPatch)
         IN  IF p.op = "add" /\ p.path = AnnotationsPathStr /\ annotationKey \in DOMAIN p.value
             THEN [nets |-> p.value[annotationKey], exists |-> TRUE]
             ELSE findInUserDefined(Tail(userDefinedPatch), annotationKey)

\* a faulty lookup: the fragments are searched before the pod
getNetworkSelectionsFragmentFirst(annotationKey, pod, userDefinedPatch) ==
    LET injected == findInUserDefined(userDefinedPatch, annotationKey)
    IN  IF injected.exists THEN injected
        ELSE IF annotationKey \in DOMAIN pod.Annotations
        THEN [nets |-> pod.Annotations[annotationKey], exists |-> TRUE]
        ELSE [nets |-> << >>, exists |-> FALSE]

getNetworkSelections(annotationKey, pod, userDefinedPatch) ==
    IF annotationKey \in DOMAIN pod.Annotations
    THEN [nets |-> pod.Annotations[annotationKey], exists |-> TRUE]
    ELSE findInUserDefined(userDefinedPatch, annotationKey)

\* ------------------------------------------------------------------------
\* Request intake and pod decoding
\*
\* An HTTP request is [body, contentType, hasRequest, namespace, decodeError,
\* listError, pod]: body tells what the bytes are ("empty", "oversize",
\* "garbage", "otherKind" or "AdmissionReview"), hasRequest whether the
\* review carries a Request, namespace the Request's namespace, decodeError
\* whether json.Unmarshal of the raw object reports an error, listError
\* whether listing owner objects fails, pod the fields json.Unmarshal fills.
\* ------------------------------------------------------------------------

StatusBadRequest == 400

StatusUnsupportedMediaType == 415

StatusOK == 200

\* a faulty intake: the Content-Type header is not looked at
readAdmissionReviewAnyContentType(req) ==
    IF req.body \in {"empty", "oversize"}
    THEN [err |-> TRUE, code |-> StatusBadRequest,
          msg |-> <<"Error reading HTTP request: empty body">>]
    ELSE IF req.body \in {"garbage", "otherKind"}
    THEN [err |-> TRUE, code |-> StatusBadRequest,
          msg |-> <<"error deserializing AdmissionReview">>]
    ELSE [err |-> FALSE, code |-> StatusOK, msg |-> << >>]

readAdmissionReview(req) ==
    IF req.body \in {"empty", "oversize"}
    THEN [err |-> TRUE, code |-> StatusBadRequest,
          msg |-> <<"Error reading HTTP request: empty body">>]
    ELSE IF req.contentType # "application/json"
    THEN [err |-> TRUE, code |-> StatusUnsupportedMediaType,
          msg |-> <<"Invalid Content-Type, expected 'application/json'">>]
    ELSE IF req.body = "garbage"
    THEN [err |-> TRUE, code |-> StatusBadRequest,
          msg |-> <<"error deserializing AdmissionReview", "decode error">>]
    ELSE IF req.body = "otherKind"
    THEN [err |-> TRUE, code |-> StatusBadRequest,
          msg |-> <<"error deserializing AdmissionReview",
                    "received object is not an AdmissionReview">>]
    ELSE [err |-> FALSE, code |-> StatusOK, msg |-> << >>]

\* owner objects of the cluster, as the list calls return them
ClusterOwners ==
    << [Kind |-> "ReplicaSet", Name |-> "web", UID |-> "uid-1", Namespace |-> NsDefault],
       [Kind |-> "DaemonSet", Name |-> "agent", UID |-> "uid-2", Namespace |-> NsOther] >>

ListedKinds == {"ReplicaSet", "DaemonSet", "StatefulSet", "ReplicationController"}

\* a faulty search: an owner object of the same name matches, whatever its
\* UID
getNamespaceFromOwnerReferenceByName(ownerRef, listError) ==
    IF ownerRef.Kind \notin ListedKinds
    THEN [err |-> FALSE, msg |-> << >>, namespace |-> NsDefault]
    ELSE IF listError
    THEN [err |-> TRUE, msg |-> <<"list error">>, namespace |-> << >>]
    ELSE LET matches == {i \in DOMAIN ClusterOwners :
                            /\ ClusterOwners[i].Kind = ownerRef.Kind
                            /\ ClusterOwners[i].Name = ownerRef.Name}
         IN  IF matches = {}
             THEN [err |-> TRUE, msg |-> <<"pod namespace is not found">>,
                   namespace |-> << >>]
             ELSE [err |-> FALSE, msg |-> << >>,
                   namespace |-> ClusterOwners[CHOOSE i \in matches : TRUE].Namespace]

getNamespaceFromOwnerReference(ownerRef, listError) ==
    IF ownerRef.Kind \notin ListedKinds
    THEN [err |-> FALSE, msg |-> << >>, namespace |-> NsDefault]
    ELSE IF listError
    THEN [err |-> TRUE, msg |-> <<"list error">>, namespace |-> << >>]
    ELSE LET matches == {i \in DOMAIN ClusterOwners :
                            /\ ClusterOwners[i].Kind = ownerRef.Kind
                            /\ ClusterOwners[i].Name = ownerRef.Name
                            /\ ClusterOwners[i].UID = ownerRef.UID}
             namespace == IF matches = {} THEN << >>
                          ELSE ClusterOwners[CHOOSE i \in matches :
                                                \A j \in matches : i <= j].Namespace
         IN  IF namespace = << >>
             THEN [err |-> TRUE, msg |-> <<"pod namespace is not found">>,
                   namespace |-> << >>]
             ELSE [err |-> FALSE, msg |-> << >>, namespace |-> namespace]

UnmarshalError == <<"json: cannot unmarshal object into Go value of type v1.Pod">>

deserializePod(req) ==
    LET pod == req.pod
        unmarshal == [err |-> req.decodeError,
                      msg |-> IF req.decodeError THEN UnmarshalError ELSE << >>]
    IN  IF pod.Namespace # << >>
        THEN [err |-> unmarshal.err, msg |-> unmarshal.msg, pod |-> pod, owners |-> << >>]
        ELSE IF req.namespace # << >>
        THEN [err |-> FALSE, msg |-> << >>, pod |-> [pod EXCEPT !.Namespace = req.namespace],
              owners |-> << >>]
        ELSE IF Len(pod.OwnerReferences) > 0
        THEN LET owner == getNamespaceFromOwnerReference(pod.OwnerReferences[1], req.listError)
             IN  IF owner.err
                 THEN [err |-> TRUE, msg |-> owner.msg, pod |-> pod,
                       owners |-> << pod.OwnerReferences[1] >>]
                 ELSE [err |-> unmarshal.err, msg |-> unmarshal.msg,
                       pod |-> [pod EXCEPT !.Namespace = owner.namespace],
                       owners |-> << pod.OwnerReferences[1] >>]
        ELSE [err |-> unmarshal.err, msg |-> unmarshal.msg, pod |-> pod, owners |-> << >>]

\* ------------------------------------------------------------------------
\* User-defined injections (package userdefinedinjections)
\* ------------------------------------------------------------------------

\* label keys of the injection table, in the order the model lists them
InjectionLabels == << "feature.pod.kubernetes.io_sriov-network", "example.com_extra-network" >>

\* the fragments an operator can configure under the two label keys
InjectionFor(label) ==
    IF label = InjectionLabels[1]
    THEN [op |-> "add", path |-> AnnotationsPathStr,
          value |-> [k \in {networksAnnotationKey} |-> Net1]]
    ELSE [op |-> "add", path |-> AnnotationsPathStr,
          value |-> [k \in {networksAnnotationKey, defaultNetworkAnnotationKey} |->
                        IF k = networksAnnotationKey THEN Net3 ELSE Net2]]

RECURSIVE matchingFragments(_, _, _)
matchingFragments(labels, table, pod) ==
    IF labels = << >> THEN << >>
    ELSE (IF /\ Head(labels) \in table
             /\ Head(labels) \in DOMAIN pod.Labels
             /\ pod.Labels[Head(labels)] = "true"
          THEN << InjectionFor(Head(labels)) >> ELSE << >>)
         \o matchingFragments(Tail(labels), table, pod)

\* CreateUserDefinedPatch: one fragment per table entry whose label key the
\* pod carries with the value "true"; the table is walked in an order that
\* is not fixed (flipped chooses between the two orders of the model)
CreateUserDefinedPatch(pod, table, flipped) ==
    matchingFragments(IF flipped THEN Reverse(InjectionLabels) ELSE InjectionLabels,
                      table, pod)

\* ------------------------------------------------------------------------
\* MutateHandler
\*
\* A response is what the handler leaves on the http.ResponseWriter:
\* kind "http" for http.Error, "review" for writeResponse, "panic" when
\* the handler goroutine panics before writing anything.
\* ------------------------------------------------------------------------

NoPatchType == ""

PatchTypeJSONPatch == "JSONPatch"

HttpError(code, msg) ==
    [kind |-> "http", code |-> code, allowed |-> FALSE, message |-> msg,
     hasPatch |-> FALSE, patch |-> << >>, patchType |-> NoPatchType]

Panicked ==
    [kind |-> "panic", code |-> 0, allowed |-> FALSE, message |-> << >>,
     hasPatch |-> FALSE, patch |-> << >>, patchType |-> NoPatchType]

\* a faulty response: Result is never set
prepareAdmissionReviewResponseNoResult(allowed, message, hasRequest) ==
    IF hasRequest
    THEN [kind |-> "review", code |-> StatusOK, allowed |-> allowed, message |-> << >>,
          hasPatch |-> FALSE, patch |-> << >>, patchType |-> NoPatchType]
    ELSE HttpError(StatusBadRequest, <<"received empty AdmissionReview request">>)

\* ar.Response as prepareAdmissionReviewResponse builds it, written by
\* writeResponse; without a Request it is an error that the callers turn
\* into http.Error
prepareAdmissionReviewResponse(allowed, message, hasRequest) ==
    IF hasRequest
    THEN [kind |-> "review", code |-> StatusOK, allowed |-> allowed, message |-> message,
          hasPatch |-> FALSE, patch |-> << >>, patchType |-> NoPatchType]
    ELSE HttpError(StatusBadRequest, <<"received empty AdmissionReview request">>)

handleValidationError(hasRequest, orgErr) ==
    LET r == prepareAdmissionReviewResponse(FALSE, orgErr, hasRequest)
    IN  IF r.kind = "http"
        THEN HttpError(StatusBadRequest, <<"error preparing AdmissionResponse">> \o r.message)
        ELSE r

\* namespace is pod.ObjectMeta.Namespace as deserializePod left it, owners the
\* owner references it handed to getNamespaceFromOwnerReference
NoLocals ==
    [namespace |-> << >>, owners |-> << >>, userDefinedPatch |-> << >>, defaultNetSelection |-> << >>, defExist |-> FALSE,
     additionalNetSelections |-> << >>, addExists |-> FALSE,
     defNetwork |-> << >>, networks |-> << >>,
     resourceRequests |-> EmptyMap, desiredNsMap |-> EmptyMap, lookups |-> << >>,
     honorExistingResources |-> << >>, hugePageDownApi |-> << >>,
     featuresStatus |-> << >>, resourceNameKeys |-> << >>,
     hugepageResourceList |-> << >>, stage |-> "intake"]

\* controlSwitches.GetAllFeaturesState(): the two feature flags as they are
\* logged when MutateHandler is entered
GetAllFeaturesState(switches) ==
    [enableHugePageDownApi |-> switches.enableHugePageDownApi,
     enableHonorExistingResources |-> switches.enableHonorExistingResources]

\* a network annotation that is empty: nothing is parsed
NoSelections == [err |-> FALSE, msg |-> << >>, elems |-> << >>]

\* the maps of MutateHandler before a definition is resolved
NothingResolved ==
    [err |-> FALSE, msg |-> << >>, reqs |-> EmptyMap, nsMap |-> EmptyMap, lookups |-> << >>]

\* how the two blocks ended, and the maps as they stand then
resolveOutcome(outcome, msg, r, defNetwork, networks) ==
    [outcome |-> outcome, msg |-> msg, reqs |-> r.reqs, nsMap |-> r.nsMap,
     lookups |-> r.lookups, defNetwork |-> defNetwork.elems, networks |-> networks.elems]

\* the block "if additionalNetSelections != \"\"", entered with what the
\* block of the default network left in first
resolveAdditionalNetworks(defNetwork, first, networks, cache, cluster, keys) ==
    IF first.err
    THEN resolveOutcome("deny", first.msg, first, defNetwork, NoSelections)
    ELSE IF networks.err
    THEN resolveOutcome("parseError", networks.msg, first, defNetwork, NoSelections)
    ELSE LET second == resolveSelections(networks.elems, first.reqs, first.nsMap,
                                         first.lookups, cache, cluster, keys)
         IN  resolveOutcome(IF second.err THEN "deny" ELSE "ok", second.msg, second,
                            defNetwork, networks)

\* the block "if defaultNetSelection != \"\"" and what follows it
resolveDefaultNetwork(defNetwork, networks, cache, cluster, keys) ==
    IF defNetwork.err
    THEN resolveOutcome("parseError", defNetwork.msg, NothingResolved, NoSelections,
                        NoSelections)
    ELSE resolveAdditionalNetworks(
             defNetwork,
             IF Len(defNetwork.elems) = 1
             THEN resolveSelections(defNetwork.elems, EmptyMap, EmptyMap, << >>,
                                    cache, cluster, keys)
             ELSE NothingResolved,
             networks, cache, cluster, keys)

\* the two "if ... != \"\"" blocks of MutateHandler that parse and resolve
\* the default network and the additional networks
resolveNetworks(pod, defaultNetSelection, additionalNetSelections, cache, cluster, keys) ==
    resolveDefaultNetwork(
        IF defaultNetSelection # << >>
        THEN parsePodNetworkSelections(defaultNetSelection, pod.Namespace)
        ELSE NoSelections,
        IF additionalNetSelections # << >>
        THEN parsePodNetworkSelections(additionalNetSelections, pod.Namespace)
        ELSE NoSelections,
        cache, cluster, keys)

\* the end of the patch synthesis: the volume, the annotations and the node
\* selector, after the hugepage step left huge
synthesizeVolumes(huge, pod, desiredNsMap, userDefinedPatch) ==
    [panicked |-> FALSE, hugepageResourceList |-> huge.list,
     patch |-> createNodeSelectorPatch(
                   appendUserDefinedPatch(createVolPatch(huge.patch, huge.list, pod),
                                          pod, userDefinedPatch),
                   pod.NodeSelector, desiredNsMap)]

\* the hugepage step of the patch synthesis, after the resource patch p1
synthesizeHugepages(p1, pod, desiredNsMap, userDefinedPatch, hugepages, reversed) ==
    synthesizeVolumes(IF hugepages
                      THEN processHugepagesForDownwardAPI(p1, pod.Containers, reversed)
                      ELSE [patch |-> p1, list |-> << >>],
                      pod, desiredNsMap, userDefinedPatch)

\* the patch synthesis of MutateHandler, from "var patch" to the call of
\* createNodeSelectorPatch; panicked when Containers[0] is indexed on a pod
\* without containers
synthesizePatch(pod, resourceRequests, desiredNsMap, userDefinedPatch, honor, hugepages, reversed) ==
    IF resourceRequests = EmptyMap
    THEN [panicked |-> FALSE, hugepageResourceList |-> << >>,
          patch |-> createNodeSelectorPatch(<< >>, pod.NodeSelector, desiredNsMap)]
    ELSE IF Len(pod.Containers) = 0
    THEN [panicked |-> TRUE, hugepageResourceList |-> << >>, patch |-> << >>]
    ELSE synthesizeHugepages(
             IF honor
             THEN updateResourcePatch(<< >>, pod.Containers, resourceRequests, reversed)
             ELSE createResourcePatch(<< >>, pod.Containers, resourceRequests, reversed),
             pod, desiredNsMap, userDefinedPatch, hugepages, reversed)

\* the part of MutateHandler that follows the two blocks: the response for
\* what they left in resolved
respondResolved(req, pod, locals, resolved, switches, reversed) ==
    LET after == [locals EXCEPT !.resourceRequests = resolved.reqs,
                                !.desiredNsMap = resolved.nsMap,
                                !.lookups = resolved.lookups,
                                !.defNetwork = resolved.defNetwork,
                                !.networks = resolved.networks,
                                !.resourceNameKeys =
                                     [i \in 1..Cardinality({l \in DOMAIN resolved.lookups :
                                                               resolved.lookups[l].via # "failed"})
                                        |-> switches.resourceNameKeys],
                                !.stage = "resolve"]
        synthesis == synthesizePatch(pod, resolved.reqs, resolved.nsMap,
                                     locals.userDefinedPatch,
                                     switches.enableHonorExistingResources,
                                     switches.enableHugePageDownApi, reversed)
        allowed == prepareAdmissionReviewResponse(TRUE, <<"allowed">>, req.hasRequest)
        honorRead == IF resolved.reqs = EmptyMap THEN << >>
                     ELSE << switches.enableHonorExistingResources >>
        hugepagesRead == IF resolved.reqs = EmptyMap THEN << >>
                         ELSE << switches.enableHugePageDownApi >>
    IN  IF resolved.outcome = "parseError"
        THEN [response |-> HttpError(StatusBadRequest, resolved.msg), locals |-> after]
        ELSE IF resolved.outcome = "deny"
        THEN [response |-> prepareAdmissionReviewResponse(FALSE, resolved.msg, req.hasRequest),
              locals |-> after]
        ELSE IF allowed.kind = "http"
        THEN [response |-> allowed, locals |-> after]
        ELSE IF synthesis.panicked
        THEN [response |-> Panicked,
              locals |-> [after EXCEPT !.stage = "patch",
                                       !.honorExistingResources = honorRead]]
        ELSE [response |-> [allowed EXCEPT !.hasPatch = TRUE,
                                           !.patch = synthesis.patch,
                                           !.patchType = PatchTypeJSONPatch],
              locals |-> [after EXCEPT !.stage = "patch",
                                       !.honorExistingResources = honorRead,
                                       !.hugePageDownApi = hugepagesRead,
                                       !.hugepageResourceList =
                                            synthesis.hugepageResourceList]]

\* the branch of MutateHandler taken when a network annotation exists
mutateNetworks(req, pod, locals, cache, cluster, switches, reversed) ==
    respondResolved(req, pod, locals,
                    resolveNetworks(pod, locals.defaultNetSelection,
                                    locals.additionalNetSelections, cache, cluster,
                                    switches.resourceNameKeys),
                    switches, reversed)

\* MutateHandler: the response it writes and the values of its local
\* variables when it returns (stage names the last part it ran)
MutateHandler(req, cache, cluster, switches, table, flipped, reversed) ==
    LET intake == readAdmissionReview(req)
        decoded == deserializePod(req)
        pod == decoded.pod
        userDefinedPatch == CreateUserDefinedPatch(pod, table, flipped)
        def == getNetworkSelections(defaultNetworkAnnotationKey, pod, userDefinedPatch)
        add == getNetworkSelections(networksAnnotationKey, pod, userDefinedPatch)
        entered == [NoLocals EXCEPT !.featuresStatus = << GetAllFeaturesState(switches) >>]
        locals == [entered EXCEPT !.namespace = pod.Namespace,
                                  !.owners = decoded.owners,
                                  !.userDefinedPatch = userDefinedPatch,
                                  !.defaultNetSelection = def.nets,
                                  !.defExist = def.exists,
                                  !.additionalNetSelections = add.nets,
                                  !.addExists = add.exists,
                                  !.stage = "discovery"]
    IN  IF intake.err
        THEN [response |-> HttpError(intake.code, intake.msg), locals |-> entered]
        ELSE IF ~req.hasRequest
        THEN [response |-> Panicked, locals |-> [entered EXCEPT !.stage = "decode"]]
        ELSE IF decoded.err
        THEN [response |-> handleValidationError(req.hasRequest, decoded.msg),
              locals |-> [entered EXCEPT !.namespace = pod.Namespace,
                                         !.owners = decoded.owners,
                                         !.stage = "decode"]]
        ELSE IF def.exists \/ add.exists
        THEN mutateNetworks(req, pod, locals, cache, cluster, switches, reversed)
        ELSE [response |-> prepareAdmissionReviewResponse(TRUE,
                              <<"Pod spec doesn't have network annotations. Skipping...">>,
                              req.hasRequest),
              locals |-> locals]

\* ------------------------------------------------------------------------
\* Requests of the model
\* ------------------------------------------------------------------------

ContainerNames == << <<"a","p","p">>, <<"s","i","d","e">>, <<"i","n","i","t">> >>

PlainContainer ==
    [Name |-> << >>, Requests |-> EmptyMap, Limits |-> EmptyMap, Env |-> << >>,
     VolumeMounts |-> 0]

One(k, v) == [x \in {k} |-> v]

Two(k1, v1, k2, v2) == [x \in {k1, k2} |-> IF x = k1 THEN v1 ELSE v2]

\* containers that differ in the network resources they already declare
ResourceContainers ==
    { PlainContainer,
      [PlainContainer EXCEPT !.Requests = One(ResFoo, 3), !.Limits = One(ResFoo, 1)],
      [PlainContainer EXCEPT !.Limits = One(ResBar, 2)] }

\* "other"
StrOther == <<"o","t","h","e","r">>

\* containers that differ in hugepage resources, environment and mounts
HugepageContainers ==
    { PlainContainer,
      [PlainContainer EXCEPT !.Requests = One(Huge1Gi, 2), !.Limits = One(Huge1Gi, 2)],
      [PlainContainer EXCEPT !.Limits = Two(Huge1Gi, 0, Huge2Mi, 1),
                             !.Env = << [Name |-> EnvNameContainerName, Value |-> StrOther] >>,
                             !.VolumeMounts = 1],
      [PlainContainer EXCEPT !.Requests = Two(Huge2Mi, 1, ResFoo, 1),
                             !.Env = << [Name |-> "HOME", Value |-> StrOther] >>] }

\* the lists of at most MaxContainers different containers of a pool (at
\* least least), the container at index i named ContainerNames[i]
ContainerLists(pool, least) ==
    UNION { { [i \in 1..n |-> [l[i] EXCEPT !.Name = ContainerNames[i]]] :
                l \in {f \in [1..n -> pool] : \A i, j \in 1..n : i # j => f[i] # f[j]} }
            : n \in least..MaxContainers }

\* the comma separated lists of at most MaxSelections definition names
NameLists == UNION { [1..n -> NadNames] : n \in 1..MaxSelections }

ListedNetworks == { Join(l, <<",">>) : l \in NameLists }

\* "n1, n1", "ns1/n1@eth1,default/n2", "n1,a/b/c", "default/n1@eth0",
\* "ns1/n1", "a/b/c", "n1@x@y", "N1" and the two JSON texts
OtherNetworks ==
    { <<"n","1",","," ","n","1">>,
      NsOther \o <<"/","n","1","@","e","t","h","1",",">> \o NsDefault \o <<"/","n","2">>,
      <<"n","1",",","a","/","b","/","c">>,
      NsDefault \o <<"/","n","1","@","e","t","h","0">>,
      NsOther \o <<"/","n","1">>,
      <<"a","/","b","/","c">>,
      <<"n","1","@","x","@","y">>,
      <<"N","1">>,
      JsonSelections, JsonUpperCase }

\* the node selector master=old, zone=a
PodNodeSelector ==
    Two(<<"m","a","s","t","e","r">>, <<"o","l","d">>, <<"z","o","n","e">>, <<"a">>)

PlainPod ==
    [Namespace |-> NsDefault, OwnerReferences |-> << >>, Labels |-> EmptyMap,
     Annotations |-> EmptyMap, NodeSelector |-> EmptyMap, Volumes |-> 0,
     Containers |-> << [PlainContainer EXCEPT !.Name = ContainerNames[1]] >>]

\* stands for "the pod has no such annotation" when pods are generated
Absent == <<"absent">>

\* a map from the keys whose value is not the absent one
Present(keys, value(_), absent) == [k \in {x \in keys : value(x) # absent} |-> value(k)]

\* pods that differ in the resources their containers already declare; they
\* select "n1" or "n1,n2"
ResourcePods ==
    { [PlainPod EXCEPT !.Annotations = One(networksAnnotationKey, nets),
                       !.Containers = containers] :
        nets \in {Net1, Join(<<Net1, Net2>>, <<",">>)},
        containers \in ContainerLists(ResourceContainers, 0) }

\* pods that differ in the syntax of the selections
SyntaxPods ==
    { [PlainPod EXCEPT !.Annotations = One(networksAnnotationKey, nets)] :
        nets \in OtherNetworks }

\* pods that differ in their annotations and labels
AnnotationPods ==
    { [PlainPod EXCEPT
         !.Annotations =
            LET v(k) == IF k = networksAnnotationKey THEN nets
                        ELSE IF k = defaultNetworkAnnotationKey THEN def
                        ELSE note
            IN  Present({networksAnnotationKey, defaultNetworkAnnotationKey, "note"}, v, Absent),
         !.Labels =
            LET w(k) == IF k = InjectionLabels[1] THEN l1 ELSE l2
            IN  Present({InjectionLabels[1], InjectionLabels[2]}, w, "absent")] :
        nets \in {Absent, Net2, << >>},
        def \in {Absent, Net3, Net1 \o <<",">> \o Net2},
        note \in {Absent, StrOther},
        l1 \in {"true", "false"},
        l2 \in {"absent", "true"} }

\* pods that differ in hugepage resources, environment, mounts and volumes
HugepagePods ==
    { [PlainPod EXCEPT !.Annotations = One(networksAnnotationKey, nets),
                       !.Containers = containers,
                       !.Volumes = volumes] :
        nets \in {Net1},
        containers \in ContainerLists(HugepageContainers, 1),
        volumes \in {1} }

\* pods with a node selector that differ in the selections
NodeSelectorPods ==
    { [PlainPod EXCEPT !.Annotations = One(networksAnnotationKey, nets),
                       !.NodeSelector = PodNodeSelector] :
        nets \in ListedNetworks }

\* "ns1/n4", "ns1/n5", "n3,ns1/n4" and "ns1/n5,n2"
SelectorNetworks ==
    { NsOther \o <<"/">> \o Net4,
      NsOther \o <<"/">> \o Net5,
      Net3 \o <<",">> \o NsOther \o <<"/">> \o Net4,
      NsOther \o <<"/">> \o Net5 \o <<",">> \o Net2 }

\* pods that select definitions whose node selector has no "=" or two
SelectorSyntaxPods ==
    { [PlainPod EXCEPT !.Annotations = One(networksAnnotationKey, nets)] :
        nets \in SelectorNetworks }

Pods ==
    ResourcePods \cup SyntaxPods \cup AnnotationPods \cup HugepagePods \cup NodeSelectorPods
        \cup SelectorSyntaxPods

ReviewOf(pod) ==
    [body |-> "AdmissionReview", contentType |-> "application/json", hasRequest |-> TRUE,
     namespace |-> NsDefault, decodeError |-> FALSE, listError |-> FALSE, pod |-> pod,
     reinvocation |-> FALSE]

OwnerReferenceLists ==
    { << >>,
      << [Kind |-> "ReplicaSet", Name |-> "web", UID |-> "uid-1"] >>,
      << [Kind |-> "ReplicaSet", Name |-> "web", UID |-> "uid-9"] >>,
      << [Kind |-> "Job", Name |-> "batch", UID |-> "uid-3"] >>,
      << [Kind |-> "DaemonSet", Name |-> "agent", UID |-> "uid-2"],
         [Kind |-> "ReplicaSet", Name |-> "web", UID |-> "uid-1"] >> }

\* reviews that differ in what namespace resolution has to work with
NamespaceRequests ==
    { req \in
      { [ReviewOf([PlainPod EXCEPT !.Namespace = podNamespace,
                                 !.OwnerReferences = owners,
                                 !.Annotations = annotations])
         EXCEPT !.namespace = namespace, !.decodeError = decodeError,
                !.listError = listError] :
        podNamespace \in {<< >>, NsDefault},
        namespace \in {<< >>, NsDefault},
        owners \in OwnerReferenceLists,
        annotations \in {EmptyMap, One(networksAnnotationKey, Net1)},
        decodeError \in BOOLEAN,
        listError \in BOOLEAN } :
      \/ req.pod.Namespace = << >> /\ req.namespace = << >>
      \/ req.pod.OwnerReferences = << >> /\ ~req.listError }

\* "default/n1"
DefaultNet1 == NsDefault \o <<"/">> \o Net1

\* "default/n2"
DefaultNet2 == NsDefault \o <<"/">> \o Net2

\* reviews without namespace of pods without namespace and without owner:
\* "default/n1,n2" as secondary networks, and "n1" as secondary networks
\* next to "default/n2" as default network
NoNamespaceRequests ==
    { [ReviewOf([PlainPod EXCEPT !.Namespace = << >>, !.Annotations = annotations])
       EXCEPT !.namespace = << >>] :
        annotations \in {One(networksAnnotationKey, DefaultNet1 \o <<",">> \o Net2),
                         Two(defaultNetworkAnnotationKey, DefaultNet2,
                             networksAnnotationKey, Net1)} }

\* requests that fail intake, or carry a review without Request
BrokenRequests ==
    { [ReviewOf(PlainPod) EXCEPT !.body = body, !.contentType = contentType,
                                 !.hasRequest = FALSE] :
        body \in {"empty", "oversize", "garbage", "otherKind", "AdmissionReview"},
        contentType \in {"application/json", "text/plain"} }

\* reviews of pods created in kube-system that select a network of
\* namespace default
KubeSystemRequests ==
    { [ReviewOf([PlainPod EXCEPT !.Namespace = podNamespace,
                                !.Annotations = One(networksAnnotationKey, DefaultNet1)])
       EXCEPT !.namespace = NsKubeSystem] :
        podNamespace \in {<< >>, NsKubeSystem} }

Requests ==
    { ReviewOf(pod) : pod \in Pods } \cup NamespaceRequests \cup BrokenRequests
        \cup KubeSystemRequests \cup NoNamespaceRequests

\* ------------------------------------------------------------------------
\* State machine
\* ------------------------------------------------------------------------

VARIABLES
    clusterNads,            \* names of the definitions the API server holds
    nadCache,               \* names of the definitions the informer index holds
    controlSwitches,        \* the Control Switches configuration
    configMap,              \* the nri-control-switches ConfigMap of the cluster
    userDefinedInjections,  \* label keys of the loaded injection table
    request,                \* the HTTP request being answered
    response,               \* what MutateHandler wrote for it
    locals                  \* MutateHandler's local variables at its return

vars == << clusterNads, nadCache, controlSwitches, configMap, userDefinedInjections,
           request, response, locals >>

NoRequest == [ReviewOf(PlainPod) EXCEPT !.body = "none"]

NoResponse == [Panicked EXCEPT !.kind = "none"]

\* the pod was admitted without a call of the webhook
NotCalled == [Panicked EXCEPT !.kind = "not called"]

\* the namespace selector of the webhook registration: it matches every
\* namespace but kube-system
namespaceSelectorAll(namespace) == TRUE

namespaceSelector(namespace) == namespace # NsKubeSystem

\* the value of the network-resource-name-keys flag in the model
ResourceNameKeys == << ResourceNameKey, AltResourceNameKey >>

InjectionTables == { {}, Range(InjectionLabels) }

\* the cluster without the ConfigMap (polled: the poller has seen that)
NoConfigMap ==
    [exists |-> FALSE, enableHugePageDownApi |-> FALSE,
     enableHonorExistingResources |-> FALSE, table |-> {}, polled |-> TRUE]

\* the webhook has started: flags seeded from the command line, the informer
\* synced with the definitions of the cluster, the ConfigMap not polled yet,
\* no request received
Init ==
    /\ clusterNads = NadNames
    /\ nadCache = NadNames
    /\ controlSwitches \in [enableHugePageDownApi : BOOLEAN,
                            enableHonorExistingResources : BOOLEAN,
                            resourceNameKeys : {ResourceNameKeys}]
    /\ configMap = NoConfigMap
    /\ userDefinedInjections = {}
    /\ request = NoRequest
    /\ response = NoResponse
    /\ locals = NoLocals

Idle == response = NoResponse

\* a definition is created in the cluster
NadCreate(name) ==
    /\ Idle
    /\ name \notin clusterNads
    /\ clusterNads' = clusterNads \cup {name}
    /\ UNCHANGED << nadCache, controlSwitches, configMap, userDefinedInjections, request, response,
                    locals >>

\* the informer delivers the add event of a definition
NadCacheAdd(name) ==
    /\ Idle
    /\ name \in clusterNads \ nadCache
    /\ nadCache' = nadCache \cup {name}
    /\ UNCHANGED << clusterNads, controlSwitches, configMap, userDefinedInjections, request,
                    response, locals >>

\* a definition is deleted and the informer delivers the delete event
NadDelete(name) ==
    /\ Idle
    /\ name \in clusterNads
    /\ Cardinality(NadNames \ (nadCache \ {name})) <= MaxUnsynced
    /\ clusterNads' = clusterNads \ {name}
    /\ nadCache' = nadCache \ {name}
    /\ UNCHANGED << controlSwitches, configMap, userDefinedInjections, request, response, locals >>

\* the ConfigMap is written with these flags and this table, and one poll
\* of it follows: the feature flags it holds overwrite the stored ones, the
\* injection table is reloaded
PollConfigMap(hugepages, honor, table) ==
    /\ Idle
    /\ configMap' = [exists |-> TRUE, enableHugePageDownApi |-> hugepages,
                     enableHonorExistingResources |-> honor, table |-> table,
                     polled |-> TRUE]
    /\ controlSwitches' = [controlSwitches EXCEPT !.enableHugePageDownApi = hugepages,
                                                  !.enableHonorExistingResources = honor]
    /\ userDefinedInjections' = table
    /\ UNCHANGED << clusterNads, nadCache, request, response, locals >>

\* the orders in which a Go map with these keys can be walked in the model:
\* a map with less than two keys has one
WalkOrders(keys) == IF Cardinality(keys) > 1 THEN BOOLEAN ELSE {FALSE}

\* the orders in which the resource maps of one request can be walked: two
\* when the Resource Request Map or a resource list of a container holds
\* more than one key
ResourceWalkOrders(req, resourceRequests) ==
    IF \/ Cardinality(DOMAIN resourceRequests) > 1
       \/ \E i \in DOMAIN req.pod.Containers :
             \/ Cardinality(DOMAIN req.pod.Containers[i].Requests) > 1
             \/ Cardinality(DOMAIN req.pod.Containers[i].Limits) > 1
    THEN BOOLEAN ELSE {FALSE}

\* MutateHandler answers one HTTP request
Mutate(req, flipped) ==
    /\ Idle
    /\ namespaceSelector(req.namespace)
    /\ \E straight \in {MutateHandler(req, nadCache, clusterNads, controlSwitches,
                                       userDefinedInjections, flipped, FALSE)} :
          \E reversed \in ResourceWalkOrders(req, straight.locals.resourceRequests) :
             \E result \in {IF reversed
                             THEN MutateHandler(req, nadCache, clusterNads, controlSwitches,
                                                userDefinedInjections, flipped, TRUE)
                             ELSE straight} :
                /\ request' = req
                /\ response' = result.response
                /\ locals' = result.locals
    /\ UNCHANGED << clusterNads, nadCache, controlSwitches, configMap, userDefinedInjections >>

\* the API server admits a pod of a namespace that the registration does
\* not select: the webhook is not called
AdmitUnselected(req) ==
    /\ Idle
    /\ ~namespaceSelector(req.namespace)
    /\ request' = req
    /\ response' = NotCalled
    /\ locals' = NoLocals
    /\ UNCHANGED << clusterNads, nadCache, controlSwitches, configMap, userDefinedInjections >>

\* the API server has taken the response
Answered ==
    /\ ~Idle
    /\ request' = NoRequest
    /\ response' = NoResponse
    /\ locals' = NoLocals
    /\ UNCHANGED << clusterNads, nadCache, controlSwitches, configMap, userDefinedInjections >>

Next ==
    \/ \E name \in NadNames : NadCreate(name)
    \/ \E name \in NadNames : NadCacheAdd(name)
    \/ \E name \in NadNames : NadDelete(name)
    \/ /\ Idle
       /\ \E hugepages \in BOOLEAN, honor \in BOOLEAN, table \in InjectionTables :
             PollConfigMap(hugepages, honor, table)
    \/ /\ Idle
       /\ \E req \in Requests :
             \E flipped \in WalkOrders(DOMAIN req.pod.Labels) : Mutate(req, flipped)
    \/ /\ Idle
       /\ \E req \in Requests : AdmitUnselected(req)
    \/ Answered

Spec == Init /\ [][Next]_vars

\* ------------------------------------------------------------------------
\* The patched pod submitted again
\* ------------------------------------------------------------------------

RECURSIVE unescapeToken(_)
\* RFC 6901 decoding of a reference token: "~1" is "/", "~0" is "~"
unescapeToken(s) ==
    IF s = << >> THEN << >>
    ELSE IF Len(s) >= 2 /\ s[1] = "~" /\ s[2] = "1"
    THEN <<"/">> \o unescapeToken(SubSeq(s, 3, Len(s)))
    ELSE IF Len(s) >= 2 /\ s[1] = "~" /\ s[2] = "0"
    THEN <<"~">> \o unescapeToken(SubSeq(s, 3, Len(s)))
    ELSE << Head(s) >> \o unescapeToken(Tail(s))

RECURSIVE applyPatch(_, _)
\* the pod that the API server makes of pod and a JSONPatch of the webhook
\* (RFC 6902 "add": a member is set, "-" appends to an array)
applyPatch(pod, patch) ==
    IF patch = << >> THEN pod
    ELSE LET op == Head(patch)
             at == op.path
             c == IF Len(at) >= 3 /\ at[2] = "containers"
                  THEN CHOOSE i \in DOMAIN pod.Containers : Itoa(i - 1) = at[3]
                  ELSE 0
             set(m, k, v) == [x \in (DOMAIN m) \cup {k} |-> IF x = k THEN v ELSE m[x]]
             list == IF Len(at) >= 5 /\ at[5] = "limits" THEN "Limits" ELSE "Requests"
             next ==
                IF at = <<"metadata", "annotations">>
                THEN [pod EXCEPT !.Annotations = op.value.annotations]
                ELSE IF at = <<"spec", "nodeSelector">>
                THEN [pod EXCEPT !.NodeSelector = op.value.selector]
                ELSE IF at = <<"spec", "volumes">> THEN pod
                ELSE IF at = <<"spec", "volumes", "-">>
                THEN [pod EXCEPT !.Volumes = @ + 1]
                ELSE IF at[4] = "volumeMounts"
                THEN IF Len(at) = 4 THEN pod
                     ELSE [pod EXCEPT !.Containers[c].VolumeMounts = @ + 1]
                ELSE IF at[4] = "env"
                THEN [pod EXCEPT !.Containers[c].Env =
                         (IF Len(at) = 4 THEN << >> ELSE @)
                         \o << [Name |-> op.value.envName, Value |-> op.value.envValue] >>]
                ELSE IF op.key = << >>
                THEN [pod EXCEPT !.Containers[c][list] = EmptyMap]
                ELSE [pod EXCEPT !.Containers[c][list] =
                         set(@, unescapeToken(op.key), op.value.number)]
         IN  applyPatch(next, Tail(patch))

\* the API server applies the patch of an allowed response and calls the
\* webhook again with the patched pod, cluster and flags being as they were
Resubmit(flipped) ==
    /\ response.kind = "review" /\ response.allowed /\ response.hasPatch
    /\ ~request.reinvocation
    /\ \E req \in {[request EXCEPT !.pod = applyPatch(request.pod, response.patch),
                                    !.reinvocation = TRUE]} :
       \E straight \in {MutateHandler(req, nadCache, clusterNads, controlSwitches,
                                       userDefinedInjections, flipped, FALSE)} :
          \E reversed \in ResourceWalkOrders(req, straight.locals.resourceRequests) :
             \E result \in {IF reversed
                             THEN MutateHandler(req, nadCache, clusterNads, controlSwitches,
                                                userDefinedInjections, flipped, TRUE)
                             ELSE straight} :
                /\ request' = req
                /\ response' = result.response
                /\ locals' = result.locals
    /\ UNCHANGED << clusterNads, nadCache, controlSwitches, configMap, userDefinedInjections >>

NextResubmit ==
    \/ Next
    \/ \E flipped \in WalkOrders(DOMAIN request.pod.Labels) : Resubmit(flipped)

SpecResubmit == Init /\ [][NextResubmit]_vars

\* ------------------------------------------------------------------------
\* The handler step by step, next to the poller of the ConfigMap
\* ------------------------------------------------------------------------

\* reviews of pods that differ in hugepage resources, and of a pod without
\* network annotation
InFlightRequests == { ReviewOf(pod) : pod \in HugepagePods \cup {PlainPod} }

InFlight == request # NoRequest /\ response = NoResponse

\* the request reaches the synthesis of a resource patch: what is decided
\* before a feature flag is read
ReachesSynthesis(req) ==
    \E straight \in {MutateHandler(req, nadCache, clusterNads, controlSwitches,
                                    userDefinedInjections, FALSE, FALSE)} :
        /\ straight.response.kind = "review" /\ straight.response.hasPatch
        /\ straight.locals.resourceRequests # EmptyMap

\* the ConfigMap is created or updated with these feature flags
UpdateConfigMap(hugepages, honor) ==
    /\ ~(/\ configMap.exists
         /\ configMap.enableHugePageDownApi = hugepages
         /\ configMap.enableHonorExistingResources = honor)
    /\ configMap' = [exists |-> TRUE, enableHugePageDownApi |-> hugepages,
                     enableHonorExistingResources |-> honor, table |-> {},
                     polled |-> FALSE]
    /\ UNCHANGED << clusterNads, nadCache, controlSwitches, userDefinedInjections,
                    request, response, locals >>

\* a faulty poll: the key set is overwritten too, by the default of the
\* network-resource-name-keys flag
PollResettingKeys ==
    /\ ~configMap.polled
    /\ configMap' = [configMap EXCEPT !.polled = TRUE]
    /\ controlSwitches' =
            [controlSwitches EXCEPT
                !.enableHugePageDownApi = configMap.enableHugePageDownApi,
                !.enableHonorExistingResources = configMap.enableHonorExistingResources,
                !.resourceNameKeys = << ResourceNameKey >>]
    /\ userDefinedInjections' = configMap.table
    /\ UNCHANGED << clusterNads, nadCache, request, response, locals >>

\* one poll of the ConfigMap, whatever the handler is doing: the feature
\* flags of an existing ConfigMap overwrite the stored ones
Poll ==
    /\ ~configMap.polled
    /\ configMap' = [configMap EXCEPT !.polled = TRUE]
    /\ controlSwitches' =
            [controlSwitches EXCEPT
                !.enableHugePageDownApi = configMap.enableHugePageDownApi,
                !.enableHonorExistingResources = configMap.enableHonorExistingResources]
    /\ userDefinedInjections' = configMap.table
    /\ UNCHANGED << clusterNads, nadCache, request, response, locals >>

\* MutateHandler is entered with a request
Receive(req) ==
    /\ request = NoRequest /\ response = NoResponse
    /\ request' = req
    /\ locals' = NoLocals
    /\ UNCHANGED << clusterNads, nadCache, controlSwitches, configMap,
                    userDefinedInjections, response >>

\* the call of controlSwitches.IsHonorExistingResourcesEnabled()
ReadHonorExistingResources ==
    /\ InFlight
    /\ locals.honorExistingResources = << >>
    /\ ReachesSynthesis(request)
    /\ locals' = [locals EXCEPT !.honorExistingResources =
                                    << controlSwitches.enableHonorExistingResources >>]
    /\ UNCHANGED << clusterNads, nadCache, controlSwitches, configMap,
                    userDefinedInjections, request, response >>

\* the call of controlSwitches.IsHugePagedownAPIEnabled()
ReadHugePageDownApi ==
    /\ InFlight
    /\ locals.honorExistingResources # << >>
    /\ locals.hugePageDownApi = << >>
    /\ locals' = [locals EXCEPT !.hugePageDownApi =
                                    << controlSwitches.enableHugePageDownApi >>]
    /\ UNCHANGED << clusterNads, nadCache, controlSwitches, configMap,
                    userDefinedInjections, request, response >>

\* a faulty handler: the flags are read again when the patch is built
RespondRereading ==
    /\ InFlight
    /\ ReachesSynthesis(request) => locals.hugePageDownApi # << >>
    /\ \E result \in {MutateHandler(request, nadCache, clusterNads, controlSwitches,
                                     userDefinedInjections, FALSE, FALSE)} :
          /\ response' = result.response
          /\ locals' = [result.locals EXCEPT
                            !.honorExistingResources = locals.honorExistingResources,
                            !.hugePageDownApi = locals.hugePageDownApi]
    /\ UNCHANGED << clusterNads, nadCache, controlSwitches, configMap,
                    userDefinedInjections, request >>

\* MutateHandler writes its response: the patch is built with the flags as
\* they were read
Respond ==
    /\ InFlight
    /\ ReachesSynthesis(request) => locals.hugePageDownApi # << >>
    /\ \E read \in {IF locals.hugePageDownApi = << >> THEN controlSwitches
                     ELSE [controlSwitches EXCEPT
                              !.enableHonorExistingResources =
                                   locals.honorExistingResources[1],
                              !.enableHugePageDownApi = locals.hugePageDownApi[1]]} :
          \E result \in {MutateHandler(request, nadCache, clusterNads, read,
                                        userDefinedInjections, FALSE, FALSE)} :
             /\ response' = result.response
             /\ locals' = result.locals
    /\ UNCHANGED << clusterNads, nadCache, controlSwitches, configMap,
                    userDefinedInjections, request >>

NextInFlight ==
    \/ \E hugepages \in BOOLEAN, honor \in BOOLEAN : UpdateConfigMap(hugepages, honor)
    \/ Poll
    \/ \E req \in InFlightRequests : Receive(req)
    \/ ReadHonorExistingResources
    \/ ReadHugePageDownApi
    \/ Respond
    \/ Answered

SpecInFlight == Init /\ [][NextInFlight]_vars

\* ------------------------------------------------------------------------
\* The loop over the selections step by step, next to the poller
\* ------------------------------------------------------------------------

\* MutateHandler is entered with the review of a pod of namespace default
\* that carries a networks annotation, logs the feature flags and parses
\* the annotation
Enter(pod) ==
    /\ request = NoRequest /\ response = NoResponse
    /\ request' = ReviewOf(pod)
    /\ locals' = [NoLocals EXCEPT
                     !.featuresStatus = << GetAllFeaturesState(controlSwitches) >>,
                     !.namespace = pod.Namespace,
                     !.additionalNetSelections = pod.Annotations[networksAnnotationKey],
                     !.addExists = TRUE,
                     !.networks = parsePodNetworkSelections(
                                      pod.Annotations[networksAnnotationKey],
                                      pod.Namespace).elems,
                     !.stage = "discovery"]
    /\ UNCHANGED << clusterNads, nadCache, controlSwitches, configMap,
                    userDefinedInjections, response >>

\* one turn of the loop "for _, n := range networks": the definition is
\* looked up and its resource names are counted under the key set that
\* GetResourceNameKeys returns at this moment; an error ends the request
\* with a denial
ResolveSelection ==
    /\ InFlight /\ locals.stage = "discovery"
    /\ Len(locals.lookups) < Len(locals.networks)
    /\ \E n \in {locals.networks[Len(locals.lookups) + 1]} :
       \E r \in {parseNetworkAttachDefinition(n, locals.resourceRequests, locals.desiredNsMap,
                                              nadCache, clusterNads,
                                              controlSwitches.resourceNameKeys)} :
          /\ locals' = [locals EXCEPT
                           !.resourceRequests = r.reqs,
                           !.desiredNsMap = r.nsMap,
                           !.lookups = Append(@, [Namespace |-> n.Namespace, Name |-> n.Name,
                                                  via |-> r.via]),
                           !.resourceNameKeys =
                                IF r.via = "failed" THEN @
                                ELSE Append(@, controlSwitches.resourceNameKeys),
                           !.stage = IF r.err THEN "resolve" ELSE @]
          /\ response' = IF r.err
                         THEN prepareAdmissionReviewResponse(FALSE, r.msg, request.hasRequest)
                         ELSE response
    /\ UNCHANGED << clusterNads, nadCache, controlSwitches, configMap,
                    userDefinedInjections, request >>

\* the loop is over: MutateHandler reads the feature flags, builds the patch
\* from the maps the loop has filled and writes its response
RespondResolved ==
    /\ InFlight /\ locals.stage = "discovery"
    /\ Len(locals.lookups) = Len(locals.networks)
    /\ \E result \in {respondResolved(request, request.pod, locals,
                                       [outcome |-> "ok", msg |-> << >>,
                                        reqs |-> locals.resourceRequests,
                                        nsMap |-> locals.desiredNsMap,
                                        lookups |-> locals.lookups,
                                        defNetwork |-> << >>,
                                        networks |-> locals.networks],
                                       controlSwitches, FALSE)} :
          /\ response' = result.response
          /\ locals' = [result.locals EXCEPT !.resourceNameKeys = locals.resourceNameKeys]
    /\ UNCHANGED << clusterNads, nadCache, controlSwitches, configMap,
                    userDefinedInjections, request >>

NextResolve ==
    \/ \E hugepages \in BOOLEAN, honor \in BOOLEAN : UpdateConfigMap(hugepages, honor)
    \/ Poll
    \/ \E pod \in ResourcePods \cup NodeSelectorPods : Enter(pod)
    \/ ResolveSelection
    \/ RespondResolved
    \/ Answered

SpecResolve == Init /\ [][NextResolve]_vars

\* ------------------------------------------------------------------------
\* Properties
\*
\* The definitions of the cluster and the configuration change only while
\* no request is being answered, so in a state that holds a response they
\* are what MutateHandler read.
\* ------------------------------------------------------------------------

\* the pod of the request being answered
Pod == request.pod

\* MutateHandler got past intake and pod decoding
Decoded == response # NoResponse /\ locals.stage \notin {"intake", "decode"}

\* the answer is an allowed admission response
Allowed == response.kind = "review" /\ response.allowed

\* the answer is an allowed admission response that carries a patch
Patched == Allowed /\ response.hasPatch

NoPatch ==
    /\ ~response.hasPatch
    /\ response.patch = << >>
    /\ response.patchType = NoPatchType

\* positions of the add ops of the patch at path/name, name being the
\* decoded last reference token (<< >> when the path has no data token)
OpsAt(path, name) ==
    {i \in DOMAIN response.patch :
        /\ response.patch[i].op = "add"
        /\ response.patch[i].path = path
        /\ unescapeToken(response.patch[i].key) = name}

ResourceNames == {ResFoo, ResBar}

RequestsPath == <<"spec", "containers", "0", "resources", "requests">>

LimitsPath == <<"spec", "containers", "0", "resources", "limits">>

\* the number of (resolved selection, configured resource-name key) pairs
\* whose attachment definition holds r under the key
ExpectedCount(r) ==
    Cardinality({ p \in (DOMAIN locals.lookups) \X (DOMAIN controlSwitches.resourceNameKeys) :
                    LET held == NadAnnotations(locals.lookups[p[1]].Name)
                        k == controlSwitches.resourceNameKeys[p[2]]
                    IN  k \in DOMAIN held /\ held[k] = r })

\* container number i (from 1) declares r in its requests or in its limits
Declares(i, r) ==
    \/ r \in DOMAIN Pod.Containers[i].Requests
    \/ r \in DOMAIN Pod.Containers[i].Limits

Undeclared(r) == \A i \in DOMAIN Pod.Containers : ~Declares(i, r)

\* exactly one op at path/r, and its value is the quantity number
OneQuantityAt(path, r, number) ==
    /\ Cardinality(OpsAt(path, r)) = 1
    /\ \A i \in OpsAt(path, r) : response.patch[i].value = Quantity(number)

\* the op writes below /spec/containers/<index>/<field>
WritesContainer(op, field) ==
    /\ Len(op.path) >= 4
    /\ op.path[1] = "spec"
    /\ op.path[2] = "containers"
    /\ op.path[4] = field

\* C1: with "honor existing resources" disabled, every resource name r that
\* no container declares and that the resolved selections name gets exactly
\* one add op at /spec/containers/0/resources/requests/r and one at
\* .../limits/r, each holding the number of (resolved selection, configured
\* resource-name key) pairs whose definition holds r; no op writes the
\* resources of another container than the first
C1_CountInjectedOnFirstContainer ==
    (Patched /\ ~controlSwitches.enableHonorExistingResources) =>
        /\ \A r \in ResourceNames :
              (Undeclared(r) /\ ExpectedCount(r) > 0) =>
                  /\ OneQuantityAt(RequestsPath, r, ExpectedCount(r))
                  /\ OneQuantityAt(LimitsPath, r, ExpectedCount(r))
        /\ \A i \in DOMAIN response.patch :
              WritesContainer(response.patch[i], "resources") =>
                  response.patch[i].path[3] = "0"

\* two selections resolving to example.com/foo were answered with the
\* quantity 2, the name holding "/" and "~" was injected too
C1_Witness ==
    /\ Patched /\ ~controlSwitches.enableHonorExistingResources
    /\ Len(locals.lookups) = 2
    /\ ExpectedCount(ResFoo) = 2 /\ Undeclared(ResFoo)
    /\ ExpectedCount(ResBar) = 2 /\ Undeclared(ResBar)
    /\ OneQuantityAt(RequestsPath, ResFoo, 2)
    /\ OneQuantityAt(LimitsPath, ResBar, 2)

\* neither the informer index nor the API server holds the definition
Unreadable(lookup) ==
    /\ ~(lookup.Namespace = NsDefault /\ lookup.Name \in nadCache)
    /\ ~(lookup.Namespace = NsDefault /\ lookup.Name \in clusterNads)
    /\ ~(lookup.Namespace = NsOther /\ lookup.Name \in {Net4, Net5})

Contains(message, part) == \E i \in DOMAIN message : message[i] = part

\* C2: when a selection's definition is absent from the cache and the
\* direct read fails, the answer is an admission response with Allowed =
\* false, a message containing "could not find network attachment
\* definition" and no patch, whatever the earlier selections produced
C2_LookupMissDenies ==
    (response # NoResponse
     /\ \E i \in DOMAIN locals.lookups : Unreadable(locals.lookups[i])) =>
        /\ response.kind = "review"
        /\ ~response.allowed
        /\ Contains(response.message, "could not find network attachment definition")
        /\ NoPatch

\* the second selection could not be read after the first had added to the
\* Resource Request Map
C2_Witness ==
    /\ response.kind = "review" /\ ~response.allowed
    /\ Len(locals.lookups) = 2
    /\ ~Unreadable(locals.lookups[1])
    /\ Unreadable(locals.lookups[2])
    /\ locals.resourceRequests # EmptyMap

\* labels of the loaded injection table that the pod carries with "true"
MatchedLabels ==
    {l \in userDefinedInjections \cap DOMAIN Pod.Labels : Pod.Labels[l] = "true"}

\* the values that the matched fragments hold under an annotation key
Supplied(key) ==
    { InjectionFor(l).value[key] :
        l \in {x \in MatchedLabels : key \in DOMAIN InjectionFor(x).value} }

NetworkKeys == {defaultNetworkAnnotationKey, networksAnnotationKey}

\* C3: a decoded pod that carries neither network annotation, no matched
\* fragment supplying either, is answered with Allowed = true, the
\* explanatory message, no patch and no patch type
C3_NoAnnotationsNoMutation ==
    (Decoded /\ \A key \in NetworkKeys :
                    key \notin DOMAIN Pod.Annotations /\ Supplied(key) = {}) =>
        /\ Allowed
        /\ response.message = <<"Pod spec doesn't have network annotations. Skipping...">>
        /\ NoPatch

\* such a pod, carrying other annotations and a label of the table that is
\* not "true", was answered
C3_Witness ==
    /\ Decoded /\ Allowed /\ NoPatch
    /\ userDefinedInjections # {}
    /\ Pod.Labels # EmptyMap /\ Pod.Annotations # EmptyMap
    /\ \A key \in NetworkKeys : key \notin DOMAIN Pod.Annotations /\ Supplied(key) = {}

\* no op of the patch writes r into the resources of any container
NoResourceOp(r) ==
    \A i \in DOMAIN response.patch :
        WritesContainer(response.patch[i], "resources") =>
            unescapeToken(response.patch[i].key) # r

\* C4: in default (non-honor) mode a resource name that the requests or the
\* limits of any container hold, the first or a later one, gets no
\* requests op and no limits op; every other accumulated resource name is
\* still injected on the first container
C4_DeclaredAnywhereDropped ==
    (Patched /\ ~controlSwitches.enableHonorExistingResources) =>
        \A r \in ResourceNames :
            ExpectedCount(r) > 0 =>
                IF Undeclared(r)
                THEN /\ Cardinality(OpsAt(RequestsPath, r)) = 1
                     /\ Cardinality(OpsAt(LimitsPath, r)) = 1
                ELSE NoResourceOp(r)

\* a resource declared by the second container only was dropped while the
\* other accumulated resource was injected
C4_Witness ==
    /\ Patched /\ ~controlSwitches.enableHonorExistingResources
    /\ Len(Pod.Containers) = 2
    /\ ExpectedCount(ResFoo) > 0 /\ ~Declares(1, ResFoo) /\ Declares(2, ResFoo)
    /\ NoResourceOp(ResFoo)
    /\ ExpectedCount(ResBar) > 0 /\ Undeclared(ResBar)
    /\ OpsAt(RequestsPath, ResBar) # {} /\ OpsAt(LimitsPath, ResBar) # {}

\* the quantity container number i declares for r in a resource list
\* ("Requests" or "Limits"), 0 when it declares none
Declared(i, list, r) ==
    IF r \in DOMAIN Pod.Containers[i][list] THEN Pod.Containers[i][list][r] ELSE 0

\* C5 (as amended): in honor mode the quantity emitted for an accumulated
\* resource r in requests (respectively limits) is q + n, n being the
\* accumulated count and q the quantity the first container declares for r
\* in its requests (respectively limits), 0 when it declares none
C5_HonorAddsToFirstContainer ==
    (Patched /\ controlSwitches.enableHonorExistingResources) =>
        \A r \in ResourceNames :
            ExpectedCount(r) > 0 =>
                /\ OneQuantityAt(RequestsPath, r, Declared(1, "Requests", r) + ExpectedCount(r))
                /\ OneQuantityAt(LimitsPath, r, Declared(1, "Limits", r) + ExpectedCount(r))

\* the first container declared requests 3 and limits 1 for a resource
\* whose count was added on top
C5_Witness ==
    /\ Patched /\ controlSwitches.enableHonorExistingResources
    /\ ExpectedCount(ResFoo) > 0
    /\ Declared(1, "Requests", ResFoo) = 3 /\ Declared(1, "Limits", ResFoo) = 1
    /\ OneQuantityAt(RequestsPath, ResFoo, 3 + ExpectedCount(ResFoo))
    /\ OneQuantityAt(LimitsPath, ResFoo, 1 + ExpectedCount(ResFoo))

\* C5 (as stated): in honor mode, when a container, whichever it is,
\* declares a quantity q for r in its requests (respectively limits) and
\* the accumulated count is n, the quantity emitted for r in requests
\* (respectively limits) is q + n
C5_HonorAddsToAnyContainer ==
    (Patched /\ controlSwitches.enableHonorExistingResources) =>
        \A r \in ResourceNames : \A i \in DOMAIN Pod.Containers :
            ExpectedCount(r) > 0 =>
                /\ r \in DOMAIN Pod.Containers[i].Requests =>
                      OneQuantityAt(RequestsPath, r,
                                    Declared(i, "Requests", r) + ExpectedCount(r))
                /\ r \in DOMAIN Pod.Containers[i].Limits =>
                      OneQuantityAt(LimitsPath, r, Declared(i, "Limits", r) + ExpectedCount(r))

StrMaster == <<"m","a","s","t","e","r">>

\* the label k=v that the node-selector annotation of a definition stands
\* for: "master=eno3" on n2, " master = eno4 " on n3, " gpu " on n5
SelectorLabel(name) ==
    IF name = Net5 THEN [k |-> <<"g","p","u">>, v |-> << >>]
    ELSE IF name = Net2 THEN [k |-> StrMaster, v |-> <<"e","n","o","3">>]
    ELSE [k |-> StrMaster, v |-> <<"e","n","o","4">>]

\* positions of the resolved selections whose definition carries the
\* node-selector annotation
SelectorLookups ==
    {i \in DOMAIN locals.lookups :
        nodeSelectorKey \in DOMAIN NadAnnotations(locals.lookups[i].Name)}

\* the selections resolved after number i name no label with the same key
LastForKey(i) ==
    \A j \in SelectorLookups :
        j > i => SelectorLabel(locals.lookups[j].Name).k #
                 SelectorLabel(locals.lookups[i].Name).k

NodeSelectorPath == <<"spec", "nodeSelector">>

\* exactly one op at /spec/nodeSelector, and it keeps every key of the
\* pod's node selector that no resolved definition names
OneNodeSelectorOp ==
    /\ Cardinality(OpsAt(NodeSelectorPath, << >>)) = 1
    /\ \A o \in OpsAt(NodeSelectorPath, << >>) :
          LET selector == response.patch[o].value.selector
          IN  /\ DOMAIN selector =
                    (DOMAIN Pod.NodeSelector)
                    \cup {SelectorLabel(locals.lookups[i].Name).k : i \in SelectorLookups}
              /\ \A key \in DOMAIN Pod.NodeSelector :
                    (\A i \in SelectorLookups :
                        SelectorLabel(locals.lookups[i].Name).k # key) =>
                        selector[key] = Pod.NodeSelector[key]

\* the op at /spec/nodeSelector maps the key of selection number i to its
\* value
MapsLabelOf(i) ==
    \A o \in OpsAt(NodeSelectorPath, << >>) :
        LET selector == response.patch[o].value.selector
            label == SelectorLabel(locals.lookups[i].Name)
        IN  label.k \in DOMAIN selector /\ selector[label.k] = label.v

\* C6 (as amended): when resolved definitions carry node-selector
\* annotations, the patch holds exactly one add op at /spec/nodeSelector;
\* it maps every key k so named to the value of the last resolved
\* definition naming k and keeps the pod's node selector keys that do not
\* collide; the op is emitted also when the Resource Request Map is empty
C6_NodeSelectorLastWins ==
    (Patched /\ SelectorLookups # {}) =>
        /\ OneNodeSelectorOp
        /\ \A i \in SelectorLookups : LastForKey(i) => MapsLabelOf(i)

\* a definition naming master=eno4 and no resource was resolved for a pod
\* whose node selector held master and zone
C6_Witness ==
    /\ Patched /\ SelectorLookups # {}
    /\ locals.resourceRequests = EmptyMap
    /\ DOMAIN Pod.NodeSelector = {StrMaster, <<"z","o","n","e">>}
    /\ \E o \in OpsAt(NodeSelectorPath, << >>) :
          /\ response.patch[o].value.selector[StrMaster] = <<"e","n","o","4">>
          /\ response.patch[o].value.selector[<<"z","o","n","e">>] = <<"a">>

\* C6 (as stated): when a resolved definition carries the node-selector
\* annotation k=v, the patch holds exactly one add op at /spec/nodeSelector
\* whose value maps k to v and keeps the pod's node selector keys that do
\* not collide
C6_NodeSelectorOfEveryDefinition ==
    (Patched /\ SelectorLookups # {}) =>
        /\ OneNodeSelectorOp
        /\ \A i \in SelectorLookups : MapsLabelOf(i)

AnnotationsOpPath == <<"metadata", "annotations">>

\* C7 (as amended): in the add op at /metadata/annotations every key the
\* pod defines is present; it holds the pod's value when no matched
\* fragment supplies the key, and a matched fragment's value when one does
C7_FragmentValueReplacesPodValue ==
    Patched =>
        /\ Cardinality(OpsAt(AnnotationsOpPath, << >>)) <= 1
        /\ \A o \in OpsAt(AnnotationsOpPath, << >>) :
              LET annotations == response.patch[o].value.annotations
              IN  \A key \in DOMAIN Pod.Annotations :
                     /\ key \in DOMAIN annotations
                     /\ IF Supplied(key) = {}
                        THEN annotations[key] = Pod.Annotations[key]
                        ELSE annotations[key] \in Supplied(key)

\* a pod defining the networks annotation as n2 and another annotation
\* matched a fragment supplying n1: the op holds n1 and the other annotation
C7_Witness ==
    /\ Patched
    /\ networksAnnotationKey \in DOMAIN Pod.Annotations
    /\ "note" \in DOMAIN Pod.Annotations
    /\ Supplied(networksAnnotationKey) = {Net1}
    /\ \E o \in OpsAt(AnnotationsOpPath, << >>) :
          /\ Pod.Annotations[networksAnnotationKey] = Net2
          /\ response.patch[o].value.annotations[networksAnnotationKey] = Net1
          /\ response.patch[o].value.annotations["note"] = Pod.Annotations["note"]

\* C7 (as stated): for every annotation key the pod defines, the value
\* under that key in the add op at /metadata/annotations is the pod's value
C7_PodValueNeverOverridden ==
    Patched =>
        \A o \in OpsAt(AnnotationsOpPath, << >>) :
            \A key \in DOMAIN Pod.Annotations :
                /\ key \in DOMAIN response.patch[o].value.annotations
                /\ response.patch[o].value.annotations[key] = Pod.Annotations[key]

\* the selection string MutateHandler used for a network annotation key,
\* and whether it found one
UsedSelection(key) ==
    IF key = defaultNetworkAnnotationKey
    THEN [nets |-> locals.defaultNetSelection, exists |-> locals.defExist]
    ELSE [nets |-> locals.additionalNetSelections, exists |-> locals.addExists]

\* C8: for each of the two network annotation keys the selection string
\* used is the pod's own annotation value when the pod defines the key,
\* otherwise the value a matched fragment holds under the key, otherwise
\* none; a pod without network annotations of its own matching a fragment
\* that supplies the networks annotation only is resolved against the
\* injected value
C8_PodValueThenFragmentValue ==
    Decoded =>
        /\ \A key \in NetworkKeys :
              IF key \in DOMAIN Pod.Annotations
              THEN UsedSelection(key) = [nets |-> Pod.Annotations[key], exists |-> TRUE]
              ELSE IF Supplied(key) # {}
              THEN UsedSelection(key).exists /\ UsedSelection(key).nets \in Supplied(key)
              ELSE UsedSelection(key) = [nets |-> << >>, exists |-> FALSE]
        /\ (/\ \A key \in NetworkKeys : key \notin DOMAIN Pod.Annotations
            /\ Supplied(defaultNetworkAnnotationKey) = {}
            /\ Supplied(networksAnnotationKey) # {}) =>
               /\ Len(locals.lookups) = 1
               /\ locals.lookups[1].Name \in Supplied(networksAnnotationKey)

\* a labelled pod lacking the networks annotation was resolved against the
\* injected value and mutated
C8_Witness ==
    /\ Decoded /\ Patched
    /\ \A key \in NetworkKeys : key \notin DOMAIN Pod.Annotations
    /\ Supplied(networksAnnotationKey) = {Net1}
    /\ locals.additionalNetSelections = Net1
    /\ Len(locals.lookups) = 1 /\ locals.lookups[1].Name = Net1
    /\ locals.resourceRequests # EmptyMap

\* C9 (as stated): for a pod that matches an injection entry supplying the
\* networks annotation and does not define that annotation, the patch of
\* the allowed response holds an add op at /metadata/annotations carrying
\* the key with a supplied value
C9_InjectedAnnotationInPatch ==
    (Decoded /\ Allowed
     /\ networksAnnotationKey \notin DOMAIN Pod.Annotations
     /\ Supplied(networksAnnotationKey) # {}) =>
        /\ response.hasPatch
        /\ \E o \in OpsAt(AnnotationsOpPath, << >>) :
              LET annotations == response.patch[o].value.annotations
              IN  /\ networksAnnotationKey \in DOMAIN annotations
                  /\ annotations[networksAnnotationKey] \in Supplied(networksAnnotationKey)

HugepageNames == {Huge1Gi, Huge2Mi}

\* "1G" for hugepages-1Gi, "2M" for hugepages-2Mi
SizeWithoutI(name) == IF name = Huge1Gi THEN <<"1","G">> ELSE <<"2","M">>

\* the file paths due for container number i: one for each non-zero
\* hugepages entry of its requests and of its limits
DuePaths(i) ==
    LET container == Pod.Containers[i]
    IN  { HugepageFilePrefix \o SizeWithoutI(h) \o StrRequestInfix \o container.Name :
            h \in {x \in HugepageNames \cap DOMAIN container.Requests :
                      container.Requests[x] # 0} }
        \cup
        { HugepageFilePrefix \o SizeWithoutI(h) \o StrLimitInfix \o container.Name :
            h \in {x \in HugepageNames \cap DOMAIN container.Limits :
                      container.Limits[x] # 0} }

VolumePath == <<"spec", "volumes", "-">>

\* the resource files of the podnetinfo volume added by op number o
ResourceFiles(o) ==
    LET items == response.patch[o].value.items
    IN  {j \in DOMAIN items : items[j].Resource # << >>}

\* positions of the ops adding the variable CONTAINER_NAME to container
\* number i
ContainerNameOps(i) ==
    {o \in DOMAIN response.patch :
        /\ WritesContainer(response.patch[o], "env")
        /\ response.patch[o].path[3] = Itoa(i - 1)
        /\ response.patch[o].value.envName = EnvNameContainerName}

\* C10: in a patch that adds the podnetinfo volume, with the hugepage
\* feature enabled every non-zero hugepages-<size> entry of a container's
\* requests or limits has exactly one file, named hugepages_<size without
\* i>_<request|limit>_<containerName>, there is no other resource file, and
\* a container with a file gets one add op for CONTAINER_NAME = its name
\* exactly when it defines no variable of that name; with the feature
\* disabled there is no resource file and no CONTAINER_NAME op
C10_HugepageFiles ==
    Patched =>
        \A o \in OpsAt(VolumePath, << >>) :
            LET items == response.patch[o].value.items
                due == UNION {DuePaths(i) : i \in DOMAIN Pod.Containers}
            IN  IF controlSwitches.enableHugePageDownApi
                THEN /\ \A p \in due :
                           Cardinality({j \in ResourceFiles(o) : items[j].Path = p}) = 1
                     /\ \A j \in ResourceFiles(o) : items[j].Path \in due
                     /\ \A i \in DOMAIN Pod.Containers :
                           IF /\ DuePaths(i) # {}
                              /\ \A e \in DOMAIN Pod.Containers[i].Env :
                                    Pod.Containers[i].Env[e].Name # EnvNameContainerName
                           THEN /\ Cardinality(ContainerNameOps(i)) = 1
                                /\ \A c \in ContainerNameOps(i) :
                                      response.patch[c].value.envValue =
                                          Pod.Containers[i].Name
                           ELSE ContainerNameOps(i) = {}
                ELSE /\ ResourceFiles(o) = {}
                     /\ \A i \in DOMAIN Pod.Containers : ContainerNameOps(i) = {}

\* a first container with a request and a limit of hugepages-1Gi got two
\* files and the variable; the second, with a zero hugepages-1Gi limit, a
\* hugepages-2Mi limit and a CONTAINER_NAME of its own, got one file and no
\* variable
C10_Witness ==
    /\ Patched /\ controlSwitches.enableHugePageDownApi
    /\ Len(Pod.Containers) = 2
    /\ Cardinality(DuePaths(1)) = 2
    /\ Huge1Gi \in DOMAIN Pod.Containers[2].Limits /\ Pod.Containers[2].Limits[Huge1Gi] = 0
    /\ Cardinality(DuePaths(2)) = 1
    /\ Cardinality(ContainerNameOps(1)) = 1 /\ ContainerNameOps(2) = {}
    /\ \E o \in OpsAt(VolumePath, << >>) : Cardinality(ResourceFiles(o)) = 3

\* ------------------------------------------------------------------------
\* Selection syntax
\* ------------------------------------------------------------------------

\* the positions of the character c in s
Positions(s, c) == {i \in DOMAIN s : s[i] = c}

\* the k-th piece of s between the characters c, counted from 1
Piece(s, c, k) ==
    LET at == Positions(s, c)
        bound(n) == IF n = 0 THEN 0
                    ELSE IF n > Cardinality(at) THEN Len(s) + 1
                    ELSE CHOOSE p \in at : Cardinality({q \in at : q < p}) = n - 1
    IN  SubSeq(s, bound(k - 1) + 1, bound(k) - 1)

\* s without the spaces around it
Unpadded(s) ==
    LET inked == {i \in DOMAIN s : s[i] # " "}
    IN  IF inked = {} THEN << >>
        ELSE SubSeq(s, CHOOSE i \in inked : \A j \in inked : i <= j,
                       CHOOSE i \in inked : \A j \in inked : j <= i)

\* the elements of a comma separated annotation value
Elements(value) ==
    [k \in 1..(Cardinality(Positions(value, ",")) + 1) |-> Unpadded(Piece(value, ",", k))]

\* what follows the first "/" of an element, the element when it has none
NamePart(e) == IF Positions(e, "/") = {} THEN e ELSE Piece(e, "/", 2)

\* the element has two or more "/", or its name part two or more "@"
Malformed(e) ==
    \/ Cardinality(Positions(e, "/")) >= 2
    \/ Cardinality(Positions(NamePart(e), "@")) >= 2

\* the selection the claim assigns to an element that is not malformed
SelectionOf(e, defaultNamespace) ==
    [Namespace |-> IF Positions(e, "/") = {} THEN defaultNamespace ELSE Piece(e, "/", 1),
     Name |-> Piece(NamePart(e), "@", 1),
     InterfaceRequest |-> IF Positions(NamePart(e), "@") = {} THEN << >>
                          ELSE Piece(NamePart(e), "@", 2)]

\* every unit of the selection is empty or a valid name
ValidUnits(sel) ==
    \A unit \in {sel.Namespace, sel.Name, sel.InterfaceRequest} :
        unit = << >> \/ validNameRegex(unit)

\* the secondary-networks annotation is the only one, and it was handed to
\* parsePodNetworkSelections as a comma separated string
ParsedCommaSeparated ==
    /\ Decoded /\ locals.stage # "discovery"
    /\ ~locals.defExist /\ locals.addExists
    /\ locals.additionalNetSelections \notin {<< >>} \cup JsonTexts

\* the parse of the annotation failed: MutateHandler answered with
\* http.Error before a definition was looked up
ParseFailed ==
    /\ response.kind = "http" /\ response.code = StatusBadRequest
    /\ locals.networks = << >> /\ locals.lookups = << >>

\* C11: parsePodNetworkSelections on a comma separated string whose units
\* are valid names returns one selection per element, in order: no "/"
\* gives the default namespace, one "/" the explicit namespace, one "@" in
\* the name part an interface request and none an empty one; an element
\* with two or more "/", or a name part with two or more "@", makes the
\* parse fail with an error and no selection (the elements without
\* namespace of a pod without namespace are not the subject here)
C11_OneSelectionPerElement ==
    ParsedCommaSeparated =>
        LET elements == Elements(locals.additionalNetSelections)
        IN  IF \E k \in DOMAIN elements : Malformed(elements[k])
            THEN ParseFailed
            ELSE (/\ \A k \in DOMAIN elements :
                        ValidUnits(SelectionOf(elements[k], locals.namespace))
                  /\ \/ locals.namespace # << >>
                     \/ \A k \in DOMAIN elements : Positions(elements[k], "/") # {})
                 => /\ response.kind # "http"
                    /\ locals.networks =
                          [k \in DOMAIN elements |->
                              SelectionOf(elements[k], locals.namespace)]

\* "ns1/n1@eth1,default/n2" gave {ns1, n1, eth1} and {default, n2, ""}
C11_Witness ==
    /\ ParsedCommaSeparated
    /\ Len(locals.networks) = 2
    /\ locals.networks[1] =
          [Namespace |-> NsOther, Name |-> Net1, InterfaceRequest |-> <<"e","t","h","1">>]
    /\ locals.networks[2] =
          [Namespace |-> NsDefault, Name |-> Net2, InterfaceRequest |-> << >>]

\* ------------------------------------------------------------------------
\* Intake and decoding
\* ------------------------------------------------------------------------

\* the body is empty or over the 1 MiB cap
UnreadBody == request.body \in {"empty", "oversize"}

\* the body does not deserialize into an object of kind AdmissionReview
NotAReview == request.body \in {"garbage", "otherKind"}

\* the answer is the raw HTTP error of that status, no admission decision,
\* and neither pod decoding nor patch logic has run
RawHttpError(status) ==
    /\ response.kind = "http" /\ response.code = status
    /\ NoPatch
    /\ [locals EXCEPT !.featuresStatus = << >>] = NoLocals

\* C12: request intake answers with a raw HTTP error and no admission
\* decision, before pod decoding or patch logic runs: 400 for an empty body
\* or a body over the 1 MiB cap, otherwise 415 for a Content-Type other
\* than application/json, otherwise 400 for a body that does not
\* deserialize into an object of kind AdmissionReview
C12_IntakeErrors ==
    response # NoResponse =>
        /\ UnreadBody => RawHttpError(StatusBadRequest)
        /\ (~UnreadBody /\ request.contentType # "application/json") =>
               RawHttpError(StatusUnsupportedMediaType)
        /\ (~UnreadBody /\ request.contentType = "application/json" /\ NotAReview) =>
               RawHttpError(StatusBadRequest)

\* a well-formed AdmissionReview sent as text/plain was answered with 415
C12_Witness ==
    /\ request.body = "AdmissionReview" /\ request.contentType = "text/plain"
    /\ RawHttpError(StatusUnsupportedMediaType)

\* the request passed intake and carries a Request
Reviewed ==
    /\ response # NoResponse /\ response # NotCalled
    /\ ~UnreadBody /\ ~NotAReview /\ request.contentType = "application/json"
    /\ request.hasRequest

\* the answer is an admission response with Allowed = false
Denied == response.kind = "review" /\ ~response.allowed

\* C13 (as stated): a well-formed AdmissionReview whose inner object cannot
\* be deserialized into a Pod is answered with an admission response with
\* Allowed = false, whatever the namespace of the request holds
C13_UndecodablePodDenied ==
    (Reviewed /\ request.decodeError) => Denied

\* the annotation value is a comma separated string with an element that
\* parsePodNetworkSelectionElement cannot parse
Unparseable(value) ==
    /\ value \notin {<< >>} \cup JsonTexts
    /\ \E k \in DOMAIN Elements(value) :
          \/ Malformed(Elements(value)[k])
          \/ ~ValidUnits(SelectionOf(Elements(value)[k], locals.namespace))

\* C14 (as stated): a default-network or secondary-networks annotation
\* whose value cannot be parsed as network selections is answered with an
\* admission response with Allowed = false and a message, not with a raw
\* HTTP error
C14_UnparseableDenied ==
    (/\ Decoded /\ locals.stage # "discovery"
     /\ \/ Unparseable(locals.defaultNetSelection)
        \/ Unparseable(locals.additionalNetSelections)) =>
        /\ Denied
        /\ response.message # << >>

\* the owner objects of the cluster that an owner reference names: same
\* kind, same name and same UID
OwnersNamed(ref) ==
    {i \in DOMAIN ClusterOwners :
        /\ ClusterOwners[i].Kind = ref.Kind
        /\ ClusterOwners[i].Name = ref.Name
        /\ ClusterOwners[i].UID = ref.UID}

\* C15: namespace resolution returns the pod's own metadata namespace
\* whenever it is non-empty, otherwise the namespace of the admission
\* request when that is non-empty, and turns to the owner objects only when
\* both are empty; then only the first owner reference is used, a match
\* requires equal name and equal UID, and an owner kind outside ReplicaSet,
\* DaemonSet, StatefulSet and ReplicationController gives "default"
C15_NamespaceResolution ==
    Reviewed =>
        IF Pod.Namespace # << >>
        THEN locals.namespace = Pod.Namespace /\ locals.owners = << >>
        ELSE IF request.namespace # << >>
        THEN locals.namespace = request.namespace /\ locals.owners = << >>
        ELSE IF Pod.OwnerReferences = << >>
        THEN locals.namespace = << >> /\ locals.owners = << >>
        ELSE LET ref == Pod.OwnerReferences[1]
             IN  /\ locals.owners = << ref >>
                 /\ ref.Kind \notin {"ReplicaSet", "DaemonSet", "StatefulSet",
                                     "ReplicationController"} =>
                        locals.namespace = NsDefault
                 /\ (ref.Kind \in {"ReplicaSet", "DaemonSet", "StatefulSet",
                                    "ReplicationController"} /\ ~request.listError) =>
                        IF OwnersNamed(ref) = {}
                        THEN locals.namespace = << >>
                        ELSE \E i \in OwnersNamed(ref) :
                                locals.namespace = ClusterOwners[i].Namespace

\* a pod without namespace in a request without namespace, owned first by
\* the DaemonSet of namespace ns1 and second by a ReplicaSet of namespace
\* default, was resolved to ns1
C15_Witness ==
    /\ Reviewed
    /\ Pod.Namespace = << >> /\ request.namespace = << >>
    /\ Len(Pod.OwnerReferences) = 2
    /\ OwnersNamed(Pod.OwnerReferences[2]) # {}
    /\ locals.namespace = NsOther
    /\ locals.stage \notin {"intake", "decode"}

\* C16: a pod in the kube-system namespace is never mutated: no admission
\* request for a pod of that namespace ends with a response that carries a
\* patch
C16_KubeSystemNeverMutated ==
    (request.namespace = NsKubeSystem \/ Pod.Namespace = NsKubeSystem) =>
        ~response.hasPatch

\* a pod of kube-system that selects a network whose definition names a
\* resource was admitted
C16_Witness ==
    /\ request.namespace = NsKubeSystem
    /\ Pod.Annotations = One(networksAnnotationKey, DefaultNet1)
    /\ Net1 \in nadCache
    /\ response = NotCalled

\* the step in which the handler reads the hugepage flag
ReadsHugePageDownApi ==
    locals.hugePageDownApi = << >> /\ locals'.hugePageDownApi # << >>

\* the files and variables of the hugepage feature are in the patch as the
\* flag read by the request says
BuiltFrom(hugepages) ==
    \A o \in OpsAt(VolumePath, << >>) :
        IF hugepages
        THEN /\ \A p \in UNION {DuePaths(i) : i \in DOMAIN Pod.Containers} :
                   Cardinality({j \in ResourceFiles(o) :
                                   response.patch[o].value.items[j].Path = p}) = 1
             /\ \A i \in DOMAIN Pod.Containers :
                   (/\ DuePaths(i) # {}
                    /\ \A e \in DOMAIN Pod.Containers[i].Env :
                          Pod.Containers[i].Env[e].Name # EnvNameContainerName)
                       => ContainerNameOps(i) # {}
        ELSE /\ ResourceFiles(o) = {}
             /\ \A i \in DOMAIN Pod.Containers : ContainerNameOps(i) = {}

\* C17: once a poll has completed after an update of the ConfigMap, every
\* request that reads enableHugePageDownApi reads the value of the ConfigMap
\* (so a toggle from false to true is seen by the requests that start after
\* the next poll), and a request that read the flag before the poll wrote
\* the new value finishes with the value it read: its patch is built from
\* that value, whatever the stored flag has become
C17_FlagReadOnce ==
    /\ [][(ReadsHugePageDownApi /\ configMap.exists /\ configMap.polled)
              => locals'.hugePageDownApi = << configMap.enableHugePageDownApi >>]_vars
    /\ []((Patched /\ locals.hugePageDownApi # << >>)
              => BuiltFrom(locals.hugePageDownApi[1]))

\* a request read the flag as false, the ConfigMap was then switched to true
\* and polled, and the patch of the request, whose pod requests hugepages,
\* holds no hugepage file
C17_Witness ==
    /\ Patched
    /\ locals.hugePageDownApi = << FALSE >>
    /\ configMap.exists /\ configMap.polled /\ configMap.enableHugePageDownApi
    /\ controlSwitches.enableHugePageDownApi
    /\ \E i \in DOMAIN Pod.Containers : DuePaths(i) # {}
    /\ \A o \in OpsAt(VolumePath, << >>) : ResourceFiles(o) = {}

\* the message of the error that ended the request: of the owner lookup or
\* of the decoding when deserializePod failed, otherwise of the last
\* definition that was looked up
TriggeringError ==
    IF locals.stage = "decode"
    THEN IF locals.owners # << >> /\ locals.namespace = << >>
         THEN IF request.listError THEN <<"list error">>
              ELSE <<"pod namespace is not found">>
         ELSE <<"json: cannot unmarshal object into Go value of type v1.Pod">>
    ELSE IF locals.lookups = << >> THEN << >>
    ELSE IF Unreadable(locals.lookups[Len(locals.lookups)])
    THEN <<"could not find network attachment definition",
           "could not get Network Attachment Definition">>
    ELSE <<"node selector in net-attach-def has more than one label">>

\* C18: in every admission response a patch body is attached only when
\* Allowed = true, and then the patch type is JSONPatch; every deny response
\* has Allowed = false, no patch, no patch type and, as its result message,
\* the message of the error that triggered it
C18_ResponseShape ==
    response.kind = "review" =>
        /\ (response.hasPatch \/ response.patch # << >>) =>
               response.allowed /\ response.patchType = PatchTypeJSONPatch
        /\ ~response.hasPatch => response.patchType = NoPatchType
        /\ ~response.allowed =>
               /\ ~response.hasPatch
               /\ response.patch = << >>
               /\ response.patchType = NoPatchType
               /\ response.message = TriggeringError

\* a pod without namespace, in a request without namespace, whose owner is
\* not found, was denied with the message of the lookup
C18_Witness ==
    /\ Denied
    /\ locals.owners # << >>
    /\ ~request.listError
    /\ response.message = <<"pod namespace is not found">>
    /\ ~response.hasPatch

\* ------------------------------------------------------------------------
\* Node selector annotation
\* ------------------------------------------------------------------------

\* the node-selector annotation of the definition of lookup number i
SelectorOf(i) == NadAnnotations(locals.lookups[i].Name)[nodeSelectorKey]

\* positions of the lookups that found a definition with the node-selector
\* annotation
SelectorsRead == {i \in SelectorLookups : ~Unreadable(locals.lookups[i])}

\* the number of "=" in the annotation of lookup number i
Equals(i) == Cardinality(Positions(SelectorOf(i), "="))

\* the key the claim assigns to the annotation of lookup number i, and its
\* value
KeyOf(i) ==
    IF Equals(i) = 0 THEN Unpadded(SelectorOf(i)) ELSE Unpadded(Piece(SelectorOf(i), "=", 1))

ValueOf(i) ==
    IF Equals(i) = 0 THEN << >> ELSE Unpadded(Piece(SelectorOf(i), "=", 2))

\* C19: the node-selector annotation of an attachment definition is split
\* on "=": a value with more than one "=" denies the admission, a value with
\* exactly one adds the trimmed key with the trimmed value to the Desired
\* Node Selector Map, a value with none adds the trimmed key with an empty
\* value, and when several processed selections set the same key the last
\* one processed wins
C19_NodeSelectorSplit ==
    (Decoded /\ request.hasRequest /\ SelectorsRead # {}) =>
        IF \E i \in SelectorsRead : Equals(i) > 1
        THEN /\ Denied
             /\ response.message =
                    <<"node selector in net-attach-def has more than one label">>
             /\ Equals(Len(locals.lookups)) > 1
        ELSE /\ DOMAIN locals.desiredNsMap = {KeyOf(i) : i \in SelectorsRead}
             /\ \A i \in SelectorsRead :
                   (\A j \in SelectorsRead : j > i => KeyOf(j) # KeyOf(i))
                      => locals.desiredNsMap[KeyOf(i)] = ValueOf(i)

\* "ns1/n5,n2" gave the map with gpu = "" and master = eno3
C19_Witness ==
    /\ Patched
    /\ Len(locals.lookups) = 2
    /\ SelectorsRead = {1, 2}
    /\ locals.desiredNsMap =
          Two(<<"g","p","u">>, << >>, <<"m","a","s","t","e","r">>, <<"e","n","o","3">>)

\* ------------------------------------------------------------------------
\* Selections without namespace
\* ------------------------------------------------------------------------

\* the annotation value parses into selections of which one has no
\* namespace
Nameless(value) ==
    /\ value \notin {<< >>} \cup JsonTexts
    /\ ~Unparseable(value)
    /\ \E k \in DOMAIN Elements(value) : Positions(Elements(value)[k], "/") = {}

\* the patch changes nothing: at most it sets the node selector to the one
\* the pod has
LeavesPodAlone ==
    \A o \in DOMAIN response.patch :
        /\ response.patch[o].path = NodeSelectorPath
        /\ response.patch[o].value.selector = Pod.NodeSelector

\* C20 (as stated): when a parsed network selection has no namespace and
\* the resolved default namespace of the pod is empty, the whole request is
\* a no-op: no attachment definition is looked up for it, and the pod is
\* allowed without being mutated
C20_EmptyNamespaceNoOp ==
    (/\ Decoded /\ request.hasRequest /\ locals.stage # "discovery"
     /\ locals.namespace = << >>
     /\ \/ Nameless(locals.defaultNetSelection)
        \/ Nameless(locals.additionalNetSelections)) =>
        /\ locals.lookups = << >>
        /\ Allowed
        /\ LeavesPodAlone

\* ------------------------------------------------------------------------
\* Namespace not found
\* ------------------------------------------------------------------------

\* neither the pod nor the request names a namespace, and the owner objects
\* give none: the pod has no owner reference, or no listed owner object
\* matches the first one
NamespaceNotFound ==
    /\ Reviewed
    /\ Pod.Namespace = << >> /\ request.namespace = << >>
    /\ \/ Pod.OwnerReferences = << >>
       \/ /\ Pod.OwnerReferences[1].Kind \in {"ReplicaSet", "DaemonSet", "StatefulSet",
                                               "ReplicationController"}
          /\ ~request.listError
          /\ OwnersNamed(Pod.OwnerReferences[1]) = {}

\* C21 (as stated): when namespace resolution ends with the "namespace not
\* found" condition, the request is not denied for that reason: processing
\* continues with an empty default namespace
C21_NotFoundTolerated ==
    NamespaceNotFound =>
        /\ ~(Denied /\ response.message = <<"pod namespace is not found">>)
        /\ ~request.decodeError => (Decoded /\ locals.namespace = << >>)

\* ------------------------------------------------------------------------
\* Order of the lookups
\* ------------------------------------------------------------------------

\* the selections due for a lookup, in the claimed order: the default
\* network when it is a single selection, then the secondary networks
DueSelections ==
    (IF Len(locals.defNetwork) = 1 THEN locals.defNetwork ELSE << >>) \o locals.networks

\* how a lookup must have gone, given what the informer index and the API
\* server hold
ExpectedVia(lookup) ==
    IF \/ lookup.Namespace = NsDefault /\ lookup.Name \in nadCache
       \/ lookup.Namespace = NsOther /\ lookup.Name \in {Net4, Net5}
    THEN "cache"
    ELSE IF lookup.Namespace = NsDefault /\ lookup.Name \in clusterNads
    THEN "api"
    ELSE "failed"

\* C22: within one admission request the attachment definitions are looked
\* up in a fixed order, the default-network selection first and then the
\* secondary-networks selections in annotation order; each selection is
\* looked up at most once, in the cache first and with a direct read only
\* on a cache miss, and the first failed lookup ends the request with a
\* deny before any later selection is looked up
C22_LookupOrder ==
    (Decoded /\ request.hasRequest) =>
        /\ Len(locals.lookups) <= Len(DueSelections)
        /\ \A i \in DOMAIN locals.lookups :
              /\ locals.lookups[i].Namespace = DueSelections[i].Namespace
              /\ locals.lookups[i].Name = DueSelections[i].Name
              /\ locals.lookups[i].via = ExpectedVia(locals.lookups[i])
              /\ locals.lookups[i].via = "failed" =>
                    (i = Len(locals.lookups) /\ Denied)
        /\ Allowed => Len(locals.lookups) = Len(DueSelections)

\* the default network n3, absent from the cache, was read from the API
\* server, then the secondary network n2 was found in the cache
C22_Witness ==
    /\ Patched
    /\ Len(locals.defNetwork) = 1 /\ Len(locals.networks) = 1
    /\ Len(locals.lookups) = 2
    /\ locals.lookups[1].Name = Net3 /\ locals.lookups[1].via = "api"
    /\ locals.lookups[2].Name = Net2 /\ locals.lookups[2].via = "cache"

\* ------------------------------------------------------------------------
\* The podnetinfo volume and its mounts
\* ------------------------------------------------------------------------

\* positions of the ops appending a mount to container number i (from 1)
MountOps(i) ==
    OpsAt(<<"spec", "containers", Itoa(i - 1), "volumeMounts", "-">>, << >>)

\* the volume added by op number o holds a file of this name fed from this
\* field of the pod
ExposesField(o, file, fieldPath) ==
    \E j \in DOMAIN response.patch[o].value.items :
        /\ response.patch[o].value.items[j].Path = file
        /\ response.patch[o].value.items[j].FieldPath = fieldPath

\* C23: whenever the Resource Request Map is non-empty, the patch contains
\* exactly one op appending a volume named podnetinfo and, for every
\* container of the pod, exactly one op appending a mount of that volume
\* that is read-only and at /etc/podnetinfo; the volume exposes the file
\* labels exactly when the pod has at least one label and the file
\* annotations exactly when the pod has at least one annotation
C23_VolumeAndMounts ==
    (Patched /\ locals.resourceRequests # EmptyMap) =>
        /\ Cardinality(OpsAt(VolumePath, << >>)) = 1
        /\ \A o \in OpsAt(VolumePath, << >>) :
              /\ response.patch[o].value.volumeName = "podnetinfo"
              /\ ExposesField(o, <<"l","a","b","e","l","s">>, "metadata.labels")
                    <=> (DOMAIN Pod.Labels # {})
              /\ ExposesField(o, <<"a","n","n","o","t","a","t","i","o","n","s">>,
                              "metadata.annotations")
                    <=> (DOMAIN Pod.Annotations # {})
        /\ \A i \in DOMAIN Pod.Containers :
              /\ Cardinality(MountOps(i)) = 1
              /\ \A o \in MountOps(i) :
                    /\ response.patch[o].value.mountName = "podnetinfo"
                    /\ response.patch[o].value.ReadOnly
                    /\ response.patch[o].value.MountPath = "/etc/podnetinfo"
        /\ Cardinality({o \in DOMAIN response.patch :
                            /\ WritesContainer(response.patch[o], "volumeMounts")
                            /\ Len(response.patch[o].path) = 5})
              = Len(Pod.Containers)

\* a pod with two containers, annotations and no label got two mounts and a
\* volume with the file annotations only
C23_Witness ==
    /\ Patched /\ locals.resourceRequests # EmptyMap
    /\ Len(Pod.Containers) = 2
    /\ DOMAIN Pod.Labels = {} /\ DOMAIN Pod.Annotations # {}
    /\ MountOps(1) # {} /\ MountOps(2) # {}
    /\ \E o \in OpsAt(VolumePath, << >>) :
          /\ Len(response.patch[o].value.items) = 1
          /\ response.patch[o].value.items[1].Path =
                <<"a","n","n","o","t","a","t","i","o","n","s">>

\* ------------------------------------------------------------------------
\* Parents of the added values
\* ------------------------------------------------------------------------

\* an op before number o adds at this path itself
CreatedBefore(o, path) ==
    \E before \in 1..(o - 1) :
        /\ response.patch[before].op = "add"
        /\ response.patch[before].path = path
        /\ response.patch[before].key = << >>

\* the field of container number i (from 1) is missing or empty in the
\* incoming pod
EmptyIn(i, field) ==
    IF field = "volumeMounts" THEN Pod.Containers[i].VolumeMounts = 0
    ELSE Pod.Containers[i].Env = << >>

\* C24: in every emitted patch, each op that adds beneath a parent that is
\* missing or empty in the incoming pod (the requests map or the limits map
\* of the first container, the volumes array of the pod, the volumeMounts
\* array or the env array of a container) is preceded in the patch by an op
\* that creates that parent
C24_ParentsCreatedFirst ==
    Patched =>
        \A o \in DOMAIN response.patch :
            LET op == response.patch[o]
            IN  /\ (op.path = RequestsPath /\ op.key # << >>
                    /\ DOMAIN Pod.Containers[1].Requests = {})
                      => CreatedBefore(o, RequestsPath)
                /\ (op.path = LimitsPath /\ op.key # << >>
                    /\ DOMAIN Pod.Containers[1].Limits = {})
                      => CreatedBefore(o, LimitsPath)
                /\ (op.path = VolumePath /\ Pod.Volumes = 0)
                      => CreatedBefore(o, <<"spec", "volumes">>)
                /\ \A i \in DOMAIN Pod.Containers :
                      \A field \in {"volumeMounts", "env"} :
                          (/\ op.path = <<"spec", "containers", Itoa(i - 1), field, "-">>
                           /\ EmptyIn(i, field))
                             => CreatedBefore(o, <<"spec", "containers", Itoa(i - 1), field>>)

\* a pod without volumes whose first container has no requests, no limits
\* and no mount got a patch that adds a resource, the volume and a mount
C24_Witness ==
    /\ Patched
    /\ Pod.Volumes = 0 /\ OpsAt(VolumePath, << >>) # {}
    /\ DOMAIN Pod.Containers[1].Requests = {}
    /\ \E o \in DOMAIN response.patch :
          response.patch[o].path = RequestsPath /\ response.patch[o].key # << >>
    /\ DOMAIN Pod.Containers[1].Limits = {}
    /\ \E o \in DOMAIN response.patch :
          response.patch[o].path = LimitsPath /\ response.patch[o].key # << >>
    /\ Pod.Containers[1].VolumeMounts = 0 /\ MountOps(1) # {}

\* ------------------------------------------------------------------------
\* Names in the selections
\* ------------------------------------------------------------------------

\* C25 (as stated): every NetworkSelectionElement that
\* parsePodNetworkSelections returns, whether the annotation was given as a
\* JSON array or as a comma-separated list, has a namespace, a name and an
\* interface request that are each either empty or a match of
\* ^[a-z0-9]([-a-z0-9]*[a-z0-9])?$
C25_SelectionsAreValidNames ==
    Decoded =>
        /\ \A i \in DOMAIN locals.defNetwork : ValidUnits(locals.defNetwork[i])
        /\ \A i \in DOMAIN locals.networks : ValidUnits(locals.networks[i])

\* ------------------------------------------------------------------------
\* One response per request
\* ------------------------------------------------------------------------

\* C26 (as stated): every request handled by MutateHandler ends with one
\* response on the http.ResponseWriter, an HTTP error or an AdmissionReview
\* body; the handler goroutine never ends in a panic before it has written
\* anything, also not for an AdmissionReview without a Request or for a pod
\* without containers
C26_AlwaysAnswered ==
    (response # NoResponse /\ response # NotCalled)
        => response.kind \in {"http", "review"}

\* ------------------------------------------------------------------------
\* Requests and limits
\* ------------------------------------------------------------------------

\* C27 (as stated): for every resource name a patch injects, with "honor
\* existing resources" disabled or enabled, the quantity written to the
\* first container's requests equals the quantity written to its limits
C27_RequestsEqualLimits ==
    Patched =>
        \A r \in ResourceNames :
            \A i \in OpsAt(RequestsPath, r) : \A j \in OpsAt(LimitsPath, r) :
                response.patch[i].value = response.patch[j].value

\* what the emitted quantity of r is counted on top of: nothing in default
\* mode, the first container's own declaration in honor mode
Base(list, r) ==
    IF controlSwitches.enableHonorExistingResources THEN Declared(1, list, r) ELSE 0

\* C27 (as amended): for every resource name a patch injects, requests and
\* limits of the first container each get one quantity, the same accumulated
\* count on top of a base; the base is 0 on both sides in default mode and
\* the quantity the first container already declares in requests
\* (respectively limits) in honor mode, so the two written quantities are
\* equal exactly when the bases are
C27_SameCountOnEachBase ==
    Patched =>
        \A r \in ResourceNames :
            (OpsAt(RequestsPath, r) # {} \/ OpsAt(LimitsPath, r) # {}) =>
                /\ ExpectedCount(r) > 0
                /\ OneQuantityAt(RequestsPath, r, Base("Requests", r) + ExpectedCount(r))
                /\ OneQuantityAt(LimitsPath, r, Base("Limits", r) + ExpectedCount(r))
                /\ (\A i \in OpsAt(RequestsPath, r) : \A j \in OpsAt(LimitsPath, r) :
                       response.patch[i].value = response.patch[j].value)
                   <=> Base("Requests", r) = Base("Limits", r)

\* in honor mode a first container declaring different requests and limits
\* for a resource got different quantities written
C27_Witness ==
    /\ Patched /\ controlSwitches.enableHonorExistingResources
    /\ \E r \in ResourceNames :
          /\ Declared(1, "Requests", r) # Declared(1, "Limits", r)
          /\ \E i \in OpsAt(RequestsPath, r) : \E j \in OpsAt(LimitsPath, r) :
                response.patch[i].value # response.patch[j].value

\* ------------------------------------------------------------------------
\* The annotations file
\* ------------------------------------------------------------------------

\* C28 (as stated): whenever the patch adds the podnetinfo volume and leaves
\* the pod with at least one annotation, because the pod had annotations or
\* because the patch adds /metadata/annotations, the volume holds the file
\* annotations fed from metadata.annotations
C28_AnnotationsFileFollowsPatch ==
    (Patched /\ (DOMAIN Pod.Annotations # {} \/ OpsAt(AnnotationsOpPath, << >>) # {})) =>
        \A o \in OpsAt(VolumePath, << >>) :
            ExposesField(o, AnnotationsPath, "metadata.annotations")

\* ------------------------------------------------------------------------
\* The key set of a request
\* ------------------------------------------------------------------------

\* the number of (resolved selection, key of the set) pairs whose
\* attachment definition holds r under the key
CountedUnder(keys, r) ==
    Cardinality({ p \in {l \in DOMAIN locals.lookups : locals.lookups[l].via # "failed"}
                        \X (DOMAIN keys) :
                    \E held \in {NadAnnotations(locals.lookups[p[1]].Name)} :
                        keys[p[2]] \in DOMAIN held /\ held[keys[p[2]]] = r })

Reinvoked == request.reinvocation /\ Patched

\* the pod as the patch of the response leaves it
Repatched == applyPatch(Pod, response.patch)

\* C30 (as stated): mutation is idempotent: when the patched pod is
\* submitted again under the same cluster state and flags, applying the
\* second patch leaves the pod unchanged
C30_Idempotent == Reinvoked => Repatched = Pod

\* C30 (as amended): a second pass over a patched pod leaves the pod as it
\* is only when its selections resolve to no resource; otherwise the second
\* patch appends one more podnetinfo volume and one more mount to every
\* container; on the first container, in honor mode the quantity of every
\* resolved resource grows by the accumulated count once more, and in
\* default mode a resolved resource gets its count only when no container
\* declares it yet (the first patch may have replaced the networks
\* annotation by that of a fragment); no other quantity changes
C30_SecondPass ==
    Reinvoked =>
        IF locals.resourceRequests = EmptyMap THEN Repatched = Pod
        ELSE /\ Repatched.Volumes = Pod.Volumes + 1
             /\ \A i \in DOMAIN Pod.Containers :
                   /\ Repatched.Containers[i].VolumeMounts = Pod.Containers[i].VolumeMounts + 1
                   /\ \A list \in {"Requests", "Limits"} :
                         \A r \in DOMAIN Repatched.Containers[i][list] :
                            Repatched.Containers[i][list][r] =
                                Declared(i, list, r)
                                + (IF /\ i = 1
                                      /\ r \in DOMAIN locals.resourceRequests
                                      /\ \/ controlSwitches.enableHonorExistingResources
                                         \/ Undeclared(r)
                                   THEN locals.resourceRequests[r] ELSE 0)

\* in honor mode the second patch of a pod gave it a second podnetinfo
\* volume and raised a quantity that the first patch had written
C30_Witness ==
    /\ Reinvoked /\ controlSwitches.enableHonorExistingResources
    /\ Repatched.Volumes = Pod.Volumes + 1
    /\ \E r \in DOMAIN locals.resourceRequests :
          /\ r \in DOMAIN Pod.Containers[1].Requests
          /\ Repatched.Containers[1].Requests[r] > Pod.Containers[1].Requests[r]

====
